---------------------------- MODULE Spec2Model ----------------------------
(***************************************************************************)
(* DAIY: the three-pass reasoning orchestrator behind POST /api/chat, its  *)
(* server-sent-event transport, and the client-side thinking-block decoder.*)
(*                                                                         *)
(* A JavaScript string is modelled as a sequence of one-character strings. *)
(* Indexes handed to indexOf / slice are 0-based as in the source.         *)
(***************************************************************************)
EXTENDS Integers, Sequences, FiniteSets, TLC

(***************************************************************************)
(* Bounds of the model                                                     *)
(***************************************************************************)
MaxPieces == 4

(***************************************************************************)
(* String primitives (String.prototype.indexOf / slice / trim /            *)
(* toUpperCase) and the character classes of the regular expressions       *)
(***************************************************************************)
OpenMarker == <<"<", "t", "h", "i", "n", "k", ">">>

CloseMarker == <<"<", "/", "t", "h", "i", "n", "k", ">">>

\* \s of the regular expressions
Whitespace == {" ", "\n", "\t", "\r"}

\* the characters "." does not match
LineTerminators == {"\n", "\r"}

LowerLetters == <<"a", "b", "c", "d", "e", "f", "g", "h", "i", "j", "k", "l", "m", "n", "o", "p", "q", "r", "s", "t", "u", "v", "w", "x", "y", "z">>

UpperLetters == <<"A", "B", "C", "D", "E", "F", "G", "H", "I", "J", "K", "L", "M", "N", "O", "P", "Q", "R", "S", "T", "U", "V", "W", "X", "Y", "Z">>

toUpperCaseChar(c) ==
    IF \E i \in 1..26 : LowerLetters[i] = c
    THEN UpperLetters[CHOOSE i \in 1..26 : LowerLetters[i] = c]
    ELSE c

toUpperCase(s) == [i \in 1..Len(s) |-> toUpperCaseChar(s[i])]

toLowerCaseChar(c) ==
    IF \E i \in 1..26 : UpperLetters[i] = c
    THEN LowerLetters[CHOOSE i \in 1..26 : UpperLetters[i] = c]
    ELSE c

toLowerCase(s) == [i \in 1..Len(s) |-> toLowerCaseChar(s[i])]

\* s.slice(a, b), 0 <= a, 0 <= b
slice(s, a, b) ==
    LET e == IF b > Len(s) THEN Len(s) ELSE b
    IN  IF e <= a THEN <<>> ELSE SubSeq(s, a + 1, e)

\* s.slice(a)
sliceFrom(s, a) == slice(s, a, Len(s))

\* s.startsWith(pat, i)
startsWithAt(s, pat, i) ==
    /\ i + Len(pat) <= Len(s)
    /\ \A k \in 1..Len(pat) : s[i + k] = pat[k]

\* s.indexOf(pat, from): the first index >= from where pat occurs, else -1
indexOfFrom(s, pat, from) ==
    LET hits == {i \in from..(Len(s) - Len(pat)) : startsWithAt(s, pat, i)}
    IN  IF hits = {} THEN -1
        ELSE CHOOSE i \in hits : \A j \in hits : i <= j

indexOf(s, pat) == indexOfFrom(s, pat, 0)

\* s.includes(pat)
includes(s, pat) == indexOf(s, pat) # -1

\* s.trim()
trim(s) ==
    LET keep == {i \in 1..Len(s) : s[i] \notin Whitespace}
    IN  IF keep = {} THEN <<>>
        ELSE SubSeq(s, CHOOSE i \in keep : \A j \in keep : i <= j,
                       CHOOSE i \in keep : \A j \in keep : i >= j)

\* the first index >= from whose character is in the class, else s.length
firstIn(s, from, class) ==
    LET hits == {i \in from..(Len(s) - 1) : s[i + 1] \in class}
    IN  IF hits = {} THEN Len(s)
        ELSE CHOOSE i \in hits : \A j \in hits : i <= j

\* the first index >= from whose character is not in the class, else s.length
firstNotIn(s, from, class) ==
    LET hits == {i \in from..(Len(s) - 1) : s[i + 1] \notin class}
    IN  IF hits = {} THEN Len(s)
        ELSE CHOOSE i \in hits : \A j \in hits : i <= j

(***************************************************************************)
(* The reasoning-tag pattern                                               *)
(*   /\[(ANALYZING|...|VALIDATING)\]\s*(.+)/gi                             *)
(* and its exec loop                                                       *)
(***************************************************************************)
ReasoningTags ==
    { <<"A", "N", "A", "L", "Y", "Z", "I", "N", "G">>,
      <<"D", "E", "C", "O", "M", "P", "O", "S", "I", "N", "G">>,
      <<"M", "A", "P", "P", "I", "N", "G">>,
      <<"D", "E", "T", "E", "C", "T", "I", "N", "G">>,
      <<"I", "D", "E", "N", "T", "I", "F", "Y", "I", "N", "G">>,
      <<"S", "T", "R", "A", "T", "E", "G", "I", "Z", "I", "N", "G">>,
      <<"C", "O", "N", "N", "E", "C", "T", "I", "N", "G">>,
      <<"E", "V", "A", "L", "U", "A", "T", "I", "N", "G">>,
      <<"F", "O", "R", "M", "U", "L", "A", "T", "I", "N", "G">>,
      <<"R", "E", "C", "A", "L", "L", "I", "N", "G">>,
      <<"Q", "U", "E", "S", "T", "I", "O", "N", "I", "N", "G">>,
      <<"S", "Y", "N", "T", "H", "E", "S", "I", "Z", "I", "N", "G">>,
      <<"C", "R", "I", "T", "I", "Q", "U", "I", "N", "G">>,
      <<"R", "E", "F", "I", "N", "I", "N", "G">>,
      <<"V", "A", "L", "I", "D", "A", "T", "I", "N", "G">> }

\* the alternatives of the tag group that match "[" tag "]" at index i,
\* letters compared case-insensitively (flag i)
tagsAt(s, i, tags) ==
    IF i < Len(s) /\ s[i + 1] = "["
    THEN {t \in tags :
            /\ i + Len(t) + 2 <= Len(s)
            /\ s[i + Len(t) + 2] = "]"
            /\ \A k \in 1..Len(t) : toUpperCaseChar(s[i + 1 + k]) = t[k]}
    ELSE {}

\* One attempt of the pattern at index i.  \s* is greedy and gives characters
\* back one at a time until (.+) finds a character that is not a line
\* terminator; (.+) then runs to the next line terminator or the end.
matchAt(s, i) ==
    LET ts == tagsAt(s, i, ReasoningTags)
    IN  IF ts = {} THEN [ok |-> FALSE, tag |-> <<>>, text |-> <<>>, end |-> i]
        ELSE
        LET t  == CHOOSE x \in ts : TRUE
            j  == i + Len(t) + 2
            k  == firstNotIn(s, j, Whitespace)
            back == {b \in j..(k - 1) : s[b + 1] \notin LineTerminators}
            st == IF k < Len(s) THEN k
                  ELSE IF back = {} THEN -1
                  ELSE CHOOSE b \in back : \A c \in back : b >= c
        IN  IF st = -1 THEN [ok |-> FALSE, tag |-> <<>>, text |-> <<>>, end |-> i]
            ELSE LET e == firstIn(s, st, LineTerminators)
                 IN  [ok |-> TRUE, tag |-> t, text |-> slice(s, st, e), end |-> e]

\* while ((match = pattern.exec(text)) !== null) steps.push(...)
RECURSIVE execAll(_, _)
execAll(s, lastIndex) ==
    LET i == firstIn(s, lastIndex, {"["})
    IN  IF i >= Len(s) THEN <<>>
        ELSE LET m == matchAt(s, i)
             IN  IF m.ok
                 THEN <<[tag |-> toUpperCase(m.tag), text |-> trim(m.text)]>>
                          \o execAll(s, m.end)
                 ELSE execAll(s, i + 1)

\* client copy (lib/utils)
extractThinkingSteps(raw) == execAll(raw, 0)

(***************************************************************************)
(* Thinking block parser                                                   *)
(***************************************************************************)
\* faulty decoders: the flags of the thinking case kept after the close
\* marker, the response text left untrimmed, the steps dropped once the
\* block is complete, the raw thinking shown as response text
parseThinkingContentFaulty(fullContent, fault) ==
    LET opens == {i \in 0..Len(fullContent) : startsWithAt(fullContent, OpenMarker, i)}
        thinkOpenIdx  == IF fault = "last open" /\ opens # {}
                         THEN CHOOSE i \in opens : \A j \in opens : i >= j
                         ELSE indexOf(fullContent, OpenMarker)
        thinkCloseIdx == indexOf(fullContent, CloseMarker)
        after == sliceFrom(fullContent, thinkCloseIdx + 8)
    IN  IF thinkOpenIdx = -1
        THEN [isThinking |-> FALSE, isComplete |-> FALSE, steps |-> <<>>,
              responseContent |-> fullContent, rawThinking |-> <<>>]
        ELSE IF thinkCloseIdx = -1
        THEN LET rawThinking == sliceFrom(fullContent, thinkOpenIdx + 7)
             IN  [isThinking |-> TRUE, isComplete |-> FALSE,
                  steps |-> extractThinkingSteps(rawThinking),
                  responseContent |-> IF fault = "shows raw" THEN rawThinking
                                                             ELSE <<>>,
                  rawThinking |-> rawThinking]
        ELSE LET rawThinking == slice(fullContent, thinkOpenIdx + 7, thinkCloseIdx)
             IN  [isThinking |-> (fault = "both flags"), isComplete |-> TRUE,
                  steps |-> IF fault = "drops steps" THEN <<>>
                            ELSE extractThinkingSteps(rawThinking),
                  responseContent |-> IF fault = "untrimmed" THEN after
                                                             ELSE trim(after),
                  rawThinking |-> rawThinking]

parseThinkingContentBothFlags(fullContent) ==
    parseThinkingContentFaulty(fullContent, "both flags")

parseThinkingContentUntrimmed(fullContent) ==
    parseThinkingContentFaulty(fullContent, "untrimmed")

parseThinkingContentDropsSteps(fullContent) ==
    parseThinkingContentFaulty(fullContent, "drops steps")

parseThinkingContentShowsRaw(fullContent) ==
    parseThinkingContentFaulty(fullContent, "shows raw")

\* the block taken from the last open marker instead of the first
parseThinkingContentLastOpen(fullContent) ==
    parseThinkingContentFaulty(fullContent, "last open")

\* parseThinkingContent(fullContent): ParseState
parseThinkingContent(fullContent) ==
    LET thinkOpenIdx  == indexOf(fullContent, OpenMarker)
        thinkCloseIdx == indexOf(fullContent, CloseMarker)
    IN  IF thinkOpenIdx = -1
        THEN [isThinking |-> FALSE, isComplete |-> FALSE, steps |-> <<>>,
              responseContent |-> fullContent, rawThinking |-> <<>>]
        ELSE IF thinkCloseIdx = -1
        THEN LET rawThinking == sliceFrom(fullContent, thinkOpenIdx + 7)
             IN  [isThinking |-> TRUE, isComplete |-> FALSE,
                  steps |-> extractThinkingSteps(rawThinking),
                  responseContent |-> <<>>, rawThinking |-> rawThinking]
        ELSE LET rawThinking == slice(fullContent, thinkOpenIdx + 7, thinkCloseIdx)
             IN  [isThinking |-> FALSE, isComplete |-> TRUE,
                  steps |-> extractThinkingSteps(rawThinking),
                  responseContent |-> trim(sliceFrom(fullContent, thinkCloseIdx + 8)),
                  rawThinking |-> rawThinking]

\* content.replace(/<think>[\s\S]*?<\/think>\s*/g, "")
RECURSIVE replaceThinkSpans(_)
replaceThinkSpans(content) ==
    LET o == indexOf(content, OpenMarker)
    IN  IF o = -1 THEN content
        ELSE LET c == indexOfFrom(content, CloseMarker, o + 7)
             IN  IF c = -1 THEN content
                 ELSE slice(content, 0, o)
                        \o replaceThinkSpans(
                             sliceFrom(content, firstNotIn(content, c + 8, Whitespace)))

\* the replace without the trailing .trim()
stripThinkingBlockUntrimmed(content) == replaceThinkSpans(content)

stripThinkingBlock(content) == trim(replaceThinkSpans(content))

(***************************************************************************)
(* Timeline tags of the visible response                                   *)
(***************************************************************************)
TimelineTags ==
    { <<"Q", "U", "E", "S", "T", "I", "O", "N">>,
      <<"A", "S", "S", "U", "M", "P", "T", "I", "O", "N">>,
      <<"C", "H", "A", "L", "L", "E", "N", "G", "E">>,
      <<"I", "N", "S", "I", "G", "H", "T">>,
      <<"B", "R", "E", "A", "K", "T", "H", "R", "O", "U", "G", "H">> }

BreakthroughMarker == <<"[", "B", "R", "E", "A", "K", "T", "H", "R", "O", "U", "G", "H", "]">>

\* the one-character string U+2026
Ellipsis == "ELLIPSIS"

\* str.trimEnd()
trimEnd(s) ==
    LET keep == {i \in 1..Len(s) : s[i] \notin Whitespace}
    IN  IF keep = {} THEN <<>>
        ELSE SubSeq(s, 1, CHOOSE i \in keep : \A j \in keep : i >= j)

\* a truncate that returns every string as it is
truncateNever(str, maxLength) == str

truncate(str, maxLength) ==
    IF Len(str) <= maxLength THEN str
    ELSE trimEnd(slice(str, 0, maxLength)) \o <<Ellipsis>>

\* the first index >= from where /\[(QUESTION|...|BREAKTHROUGH)\]/i matches,
\* else s.length
nextTimelineTag(s, from) ==
    LET hits == {i \in from..(Len(s) - 1) : tagsAt(s, i, TimelineTags) # {}}
    IN  IF hits = {} THEN Len(s)
        ELSE CHOOSE i \in hits : \A j \in hits : i <= j

\* content.split(/\[(...)\]/i) walked two parts at a time
RECURSIVE timelineFrom(_, _)
timelineFrom(content, from) ==
    LET i == nextTimelineTag(content, from)
    IN  IF i >= Len(content) THEN <<>>
        ELSE LET t       == CHOOSE x \in tagsAt(content, i, TimelineTags) : TRUE
                 after   == i + Len(t) + 2
                 nxt     == nextTimelineTag(content, after)
                 textRaw == trim(slice(content, after, nxt))
                 line    == slice(textRaw, 0, firstIn(textRaw, 0, {"\n"}))
             IN  <<[type |-> toLowerCase(t), text |-> truncate(line, 80)]>>
                     \o timelineFrom(content, nxt)

parseTimelineEvents(content) == timelineFrom(content, 0)

(***************************************************************************)
(* Transport: JSON.stringify / JSON.parse of the one-key objects the route *)
(* writes, and the "data: ...\n\n" framing                                 *)
(***************************************************************************)
DataPrefix == <<"d", "a", "t", "a", ":", " ">>

DoneLiteral == <<"[", "D", "O", "N", "E", "]">>

TextKey == <<"t", "e", "x", "t">>

ErrorKey == <<"e", "r", "r", "o", "r">>

jsonEscapeChar(c) ==
    CASE c = "\"" -> <<"\\", "\"">>
      [] c = "\\" -> <<"\\", "\\">>
      [] c = "\n" -> <<"\\", "n">>
      [] c = "\r" -> <<"\\", "r">>
      [] c = "\t" -> <<"\\", "t">>
      [] OTHER    -> <<c>>

\* a stringify that copies the characters of the value
jsonEscapeRaw(s) == s

jsonEscape(s) ==
    LET esc == {i \in 1..Len(s) : Len(jsonEscapeChar(s[i])) = 2}
        off(i) == (i - 1) + Cardinality({j \in esc : j < i})
        width(i) == IF i \in esc THEN 2 ELSE 1
    IN  [k \in 1..(Len(s) + Cardinality(esc)) |->
            LET i == CHOOSE x \in 1..Len(s) : off(x) < k /\ k <= off(x) + width(x)
            IN  jsonEscapeChar(s[i])[k - off(i)]]

\* JSON.stringify({ [key]: value })
jsonStringify(key, value) ==
    <<"{", "\"">> \o key \o <<"\"", ":", "\"">> \o jsonEscape(value) \o <<"\"", "}">>

jsonUnescapeChar(c) ==
    CASE c = "n" -> "\n"
      [] c = "r" -> "\r"
      [] c = "t" -> "\t"
      [] OTHER   -> c

\* a JSON string literal whose first character after the opening quote is at
\* 1-based position i: its value and the position after its closing quote,
\* or ok = FALSE
jsonStringAt(s, i) ==
    LET n == Len(s)
        \* the last position before p that is not a backslash of the literal
        runStart(p) == CHOOSE j \in (i - 1)..(p - 1) :
                          /\ j = i - 1 \/ s[j] # "\\"
                          /\ \A x \in (j + 1)..(p - 1) : s[x] = "\\"
        \* backslashes that introduce an escape
        intro == {p \in i..n : s[p] = "\\" /\ (p - 1 - runStart(p)) % 2 = 0}
        quotes == {p \in i..n : s[p] = "\"" /\ (p - 1) \notin intro}
    IN  IF quotes = {} THEN [ok |-> FALSE, value |-> <<>>, next |-> i]
        ELSE
        LET q == CHOOSE p \in quotes : \A x \in quotes : p <= x
            body == i..(q - 1)
            in == intro \cap body
            keep == body \ in
            rank(p) == p - i + 1 - Cardinality({x \in in : x < p})
        IN  IF \/ \E p \in in : s[p + 1] \notin {"\"", "\\", "/", "n", "r", "t"}
               \/ \E p \in body : s[p] \in {"\n", "\r", "\t"}
            THEN [ok |-> FALSE, value |-> <<>>, next |-> i]
            ELSE [ok |-> TRUE,
                  value |-> [k \in 1..Cardinality(keep) |->
                               LET p == CHOOSE x \in keep : rank(x) = k
                               IN  IF (p - 1) \in in THEN jsonUnescapeChar(s[p])
                                                     ELSE s[p]],
                  next |-> q + 1]

\* JSON.parse(data) for the texts a frame or a piece of a frame can hold: an
\* object with one string member, anything else throws (ok = FALSE)
jsonParse(data) ==
    LET bad == [ok |-> FALSE, key |-> <<>>, value |-> <<>>]
    IN  IF Len(data) < 2 \/ data[1] # "{" \/ data[2] # "\"" THEN bad
        ELSE LET k == jsonStringAt(data, 3)
             IN  IF ~k.ok \/ k.next + 1 > Len(data)
                        \/ data[k.next] # ":" \/ data[k.next + 1] # "\""
                 THEN bad
                 ELSE LET v == jsonStringAt(data, k.next + 2)
                      IN  IF v.ok /\ v.next = Len(data) /\ data[v.next] = "}"
                          THEN [ok |-> TRUE, key |-> k.value, value |-> v.value]
                          ELSE bad

\* encoder.encode(`data: ${JSON.stringify(data)}\n\n`)
frame(payload) == DataPrefix \o payload \o <<"\n", "\n">>

TextFrame(fragment) == frame(jsonStringify(TextKey, fragment))

ErrorFrame(message) == frame(jsonStringify(ErrorKey, message))

DoneFrame == frame(DoneLiteral)

\* chunk.split("\n")
RECURSIVE split(_)
split(chunk) ==
    LET i == firstIn(chunk, 0, {"\n"})
    IN  IF i >= Len(chunk) THEN <<chunk>>
        ELSE <<slice(chunk, 0, i)>> \o split(sliceFrom(chunk, i + 1))

(***************************************************************************)
(* POST /api/chat: the stream producer                                     *)
(***************************************************************************)
VARIABLES
    extendedThinking,  \* body.extendedThinking, also the page's toggle
    pc,                \* position of ReadableStream.start
    decomposition,     \* result of pass 1
    decomposeSteps,    \* steps of pass 1 still to be revealed
    critique,          \* result of pass 2
    chunks,            \* fragments the streaming adapter has yielded
    calls,             \* adapter calls started, in order
    pending,           \* indexes in calls of the calls in flight
    wire,              \* frames enqueued on the controller, in order
    events,            \* the StreamEvent behind each frame of wire
    closed,            \* controller.close() was called
    cancelled,         \* the consumer cancelled the response body
    err                \* adapter failures caught by catch (err), with the
                       \* position of start() that was awaiting the call

serverVars == <<extendedThinking, pc, decomposition, decomposeSteps, critique,
                chunks, calls, pending, wire, events, closed, cancelled, err>>

OpenSentinel == <<"<", "t", "h", "i", "n", "k", ">", "\n">>

CloseSentinel == <<"<", "/", "t", "h", "i", "n", "k", ">", "\n", "\n">>

CritiquingLine == <<"[", "C", "R", "I", "T", "I", "Q", "U", "I", "N", "G", "]", " ", "R", "e", "v", "i", "e", "w", "i", "n", "g", " ", "a", "n", "a", "l", "y", "s", "i", "s", " ", "f", "o", "r", " ", "b", "l", "i", "n", "d", " ", "s", "p", "o", "t", "s", " ", "a", "n", "d", " ", "f", "l", "a", "w", "s", "\n">>

RefiningLine == <<"[", "R", "E", "F", "I", "N", "I", "N", "G", "]", " ", "S", "t", "r", "e", "n", "g", "t", "h", "e", "n", "i", "n", "g", " ", "t", "e", "a", "c", "h", "i", "n", "g", " ", "s", "t", "r", "a", "t", "e", "g", "y", " ", "b", "a", "s", "e", "d", " ", "o", "n", " ", "c", "r", "i", "t", "i", "q", "u", "e", "\n">>

ValidatingLine == <<"[", "V", "A", "L", "I", "D", "A", "T", "I", "N", "G", "]", " ", "C", "o", "n", "f", "i", "r", "m", "i", "n", "g", " ", "q", "u", "e", "s", "t", "i", "o", "n", " ", "t", "a", "r", "g", "e", "t", "s", " ", "t", "h", "e", " ", "e", "x", "a", "c", "t", " ", "k", "n", "o", "w", "l", "e", "d", "g", "e", " ", "g", "a", "p", "\n">>

DecompositionHeader == <<"=", "=", "=", " ", "O", "R", "I", "G", "I", "N", "A", "L", " ", "D", "E", "C", "O", "M", "P", "O", "S", "I", "T", "I", "O", "N", " ", "=", "=", "=", "\n">>

CritiqueHeader == <<"\n", "\n", "=", "=", "=", " ", "S", "E", "L", "F", "-", "C", "R", "I", "T", "I", "Q", "U", "E", " ", "&", " ", "R", "E", "F", "I", "N", "E", "M", "E", "N", "T", " ", "=", "=", "=", "\n">>

GenerationFailed == <<"A", "I", " ", "g", "e", "n", "e", "r", "a", "t", "i", "o", "n", " ", "f", "a", "i", "l", "e", "d">>

\* server copy of the extractor (route.ts)
extractSteps(text) == execAll(text, 0)

\* the steps taken from the whole result, block or not
stepsOfDecompositionWhole(d) == extractSteps(d)

\* decomposition.match(/<think>([\s\S]*?)<\/think>/) ? extractSteps(thinkMatch[1])
\*                                                  : extractSteps(decomposition)
stepsOfDecomposition(d) ==
    LET o == indexOf(d, OpenMarker)
        c == IF o = -1 THEN -1 ELSE indexOfFrom(d, CloseMarker, o + 7)
    IN  IF c # -1 THEN extractSteps(slice(d, o + 7, c)) ELSE extractSteps(d)

\* `[${step.tag}] ${step.text}\n`
stepLine(step) == <<"[">> \o step.tag \o <<"]", " ">> \o step.text \o <<"\n">>

\* refinedAnalysis of the response pass
refinedAnalysisOf(d, c) ==
    DecompositionHeader \o replaceThinkSpans(d) \o CritiqueHeader \o c

\* err?.message without the fallback
errorMsgVerbatim(message) == message

\* err?.message || "AI generation failed"
errorMsgOf(message) == IF message = <<>> THEN GenerationFailed ELSE message

(***************************************************************************)
(* What the adapter can answer                                             *)
(***************************************************************************)
MaxChunks == 2

DecomposeResults ==
    { <<"<", "t", "h", "i", "n", "k", ">", "\n", "[", "M", "A", "P", "P", "I", "N", "G", "]", " ", "a", "\n", "<", "/", "t", "h", "i", "n", "k", ">", "\n", "[", "R", "E", "F", "I", "N", "I", "N", "G", "]", " ", "b">>,
      <<"[", "M", "A", "P", "P", "I", "N", "G", "]", " ", "a", "\n", "[", "R", "E", "F", "I", "N", "I", "N", "G", "]", " ", "b", "\n">>,
      <<"[", "M", "A", "P", "P", "I", "N", "G", "]", " ", "a", "<", "/", "t", "h", "i", "n", "k", ">", "b">>,
      <<"[", "M", "A", "P", "P", "I", "N", "G", "]", " ">>,
      <<"p", "l", "a", "n">> }

CritiqueResults == { <<"o", "k">> }

Fragments ==
    { <<>>,
      <<"H", "i">>,
      <<"[", "I", "N", "S", "I", "G", "H", "T", "]", " ", "x", "\n">>,
      OpenMarker,
      CloseMarker }

\* message of a thrown error; <<>> is an error without a message
FailureMessages == { <<>>, <<"b", "o", "o", "m">> }

(***************************************************************************)
(* Writes to the controller                                                *)
(***************************************************************************)
Event(type, stage, text) == [type |-> type, stage |-> stage, text |-> text]

\* controller.enqueue(encoder.encode(...)) on an open stream
Enqueue(fr, ev) ==
    /\ wire' = Append(wire, fr)
    /\ events' = Append(events, ev)

\* send({ text }) : enqueue throws once the consumer has cancelled, the catch
\* block's own enqueue throws again and start() rejects
WriteFails ==
    /\ cancelled
    /\ pc' = "error"
    /\ pending' = {}
    /\ UNCHANGED <<wire, events, closed, err>>

\* a catch block that writes the error and then the [DONE] frame as well
CatchThenDone(message) ==
    /\ pc' = "error"
    /\ pending' = {}
    /\ err' = Append(err, [message |-> message, at |-> pc])
    /\ IF cancelled
       THEN UNCHANGED <<wire, events, closed>>
       ELSE /\ wire' = wire \o <<ErrorFrame(errorMsgOf(message)), DoneFrame>>
            /\ events' = events \o <<Event("Error", "error", errorMsgOf(message)),
                                      Event("Done", "done", <<>>)>>
            /\ closed' = TRUE

\* catch (err) { enqueue({ error: errorMsg }); controller.close() }
Catch(message) ==
    /\ pc' = "error"
    /\ pending' = {}
    /\ err' = Append(err, [message |-> message, at |-> pc])
    /\ IF cancelled
       THEN UNCHANGED <<wire, events, closed>>
       ELSE /\ Enqueue(ErrorFrame(errorMsgOf(message)),
                       Event("Error", "error", errorMsgOf(message)))
            /\ closed' = TRUE

Call(fn, pass, system, embedded) ==
    /\ calls' = Append(calls, [fn |-> fn, pass |-> pass, system |-> system,
                               embedded |-> embedded])
    /\ pending' = pending \cup {Len(calls) + 1}

(***************************************************************************)
(* Extended thinking: three passes                                         *)
(***************************************************************************)
\* send({ text: "<think>\n" }); completeChat(decomposeMessages)
ExtStart ==
    /\ pc = "init"
    /\ extendedThinking
    /\ Enqueue(TextFrame(OpenSentinel), Event("Text", "open", OpenSentinel))
    /\ Call("completeChat", "decompose", "THINKING_DECOMPOSE_PROMPT", <<>>)
    /\ pc' = "decompose"
    /\ UNCHANGED <<extendedThinking, decomposition, decomposeSteps, critique,
                   chunks, closed, cancelled, err>>

DecomposeReturn(d) ==
    /\ pc = "decompose"
    /\ decomposition' = d
    /\ decomposeSteps' = stepsOfDecomposition(d)
    /\ pending' = {}
    /\ pc' = "replay"
    /\ UNCHANGED <<extendedThinking, critique, chunks, calls, wire, events,
                   closed, cancelled, err>>

DecomposeThrow(m) ==
    /\ pc = "decompose"
    /\ Catch(m)
    /\ UNCHANGED <<extendedThinking, decomposition, decomposeSteps, critique,
                   chunks, calls, cancelled>>

\* for (const step of decomposeSteps) { send(...); await delay(400) }
ReplayStep ==
    /\ pc = "replay"
    /\ decomposeSteps # <<>>
    /\ \/ WriteFails /\ UNCHANGED decomposeSteps
       \/ /\ ~cancelled
          /\ Enqueue(TextFrame(stepLine(Head(decomposeSteps))),
                     Event("Text", "step", stepLine(Head(decomposeSteps))))
          /\ decomposeSteps' = Tail(decomposeSteps)
          /\ UNCHANGED <<pc, pending, closed>>
    /\ UNCHANGED <<extendedThinking, decomposition, critique, chunks, calls,
                   cancelled, err>>

\* send({ text: "[CRITIQUING] ..." }); await delay(300)
SendCritiquing ==
    /\ pc = "replay"
    /\ decomposeSteps = <<>>
    /\ \/ WriteFails
       \/ /\ ~cancelled
          /\ Enqueue(TextFrame(CritiquingLine),
                     Event("Text", "narration", CritiquingLine))
          /\ pc' = "critiquing"
          /\ UNCHANGED <<pending, closed>>
    /\ UNCHANGED <<extendedThinking, decomposition, decomposeSteps, critique,
                   chunks, calls, cancelled, err>>

\* completeChat(buildCritiqueMessages(decomposition))
CallCritique ==
    /\ pc = "critiquing"
    /\ Call("completeChat", "critique", "THINKING_CRITIQUE_PROMPT", decomposition)
    /\ pc' = "critique"
    /\ UNCHANGED <<extendedThinking, decomposition, decomposeSteps, critique,
                   chunks, wire, events, closed, cancelled, err>>

\* critique returned; send({ text: "[REFINING] ..." }); await delay(300)
CritiqueReturn(c) ==
    /\ pc = "critique"
    /\ critique' = c
    /\ \/ WriteFails
       \/ /\ ~cancelled
          /\ Enqueue(TextFrame(RefiningLine),
                     Event("Text", "narration", RefiningLine))
          /\ pc' = "refining"
          /\ pending' = {}
          /\ UNCHANGED closed
    /\ UNCHANGED <<extendedThinking, decomposition, decomposeSteps, chunks,
                   calls, cancelled, err>>

\* a critique failure that is retried once instead of ending the run
CritiqueThrowRetries(m) ==
    /\ pc = "critique"
    /\ IF err = <<>>
       THEN /\ pc' = "critiquing"
            /\ pending' = {}
            /\ err' = Append(err, [message |-> m, at |-> pc])
            /\ UNCHANGED <<wire, events, closed>>
       ELSE Catch(m)
    /\ UNCHANGED <<extendedThinking, decomposition, decomposeSteps, critique,
                   chunks, calls, cancelled>>

CritiqueThrow(m) ==
    /\ pc = "critique"
    /\ Catch(m)
    /\ UNCHANGED <<extendedThinking, decomposition, decomposeSteps, critique,
                   chunks, calls, cancelled>>

\* a VALIDATING line that quotes the critique
SendValidatingQuotes ==
    /\ pc = "refining"
    /\ \/ WriteFails
       \/ /\ ~cancelled
          /\ \E line \in {<<"[", "V", "A", "L", "I", "D", "A", "T", "I", "N", "G", "]", " ">>
                              \o critique \o <<"\n">>} :
                 Enqueue(TextFrame(line), Event("Text", "narration", line))
          /\ pc' = "validating"
          /\ UNCHANGED <<pending, closed>>
    /\ UNCHANGED <<extendedThinking, decomposition, decomposeSteps, critique,
                   chunks, calls, cancelled, err>>

\* send({ text: "[VALIDATING] ..." }); await delay(200)
SendValidating ==
    /\ pc = "refining"
    /\ \/ WriteFails
       \/ /\ ~cancelled
          /\ Enqueue(TextFrame(ValidatingLine),
                     Event("Text", "narration", ValidatingLine))
          /\ pc' = "validating"
          /\ UNCHANGED <<pending, closed>>
    /\ UNCHANGED <<extendedThinking, decomposition, decomposeSteps, critique,
                   chunks, calls, cancelled, err>>

\* the response pass started without the closing sentinel
CloseThinkOmitted ==
    /\ pc = "validating"
    /\ Call("streamChat", "respond",
            "SOCRATIC_SYSTEM_PROMPT + THINKING_RESPONSE_PROMPT",
            refinedAnalysisOf(decomposition, critique))
    /\ pc' = "respond"
    /\ UNCHANGED <<extendedThinking, decomposition, decomposeSteps, critique,
                   chunks, wire, events, closed, cancelled, err>>

\* a send whose failure on a cancelled stream is ignored: the response pass
\* starts all the same
CloseThinkIgnoresFailure ==
    /\ pc = "validating"
    /\ IF cancelled
       THEN UNCHANGED <<wire, events>>
       ELSE Enqueue(TextFrame(CloseSentinel),
                    Event("Text", "close", CloseSentinel))
    /\ Call("streamChat", "respond",
            "SOCRATIC_SYSTEM_PROMPT + THINKING_RESPONSE_PROMPT",
            refinedAnalysisOf(decomposition, critique))
    /\ pc' = "respond"
    /\ UNCHANGED <<extendedThinking, decomposition, decomposeSteps, critique,
                   chunks, closed, cancelled, err>>

\* send({ text: "</think>\n\n" }); streamChat(buildResponseMessages(refinedAnalysis))
CloseThink ==
    /\ pc = "validating"
    /\ \/ WriteFails /\ UNCHANGED calls
       \/ /\ ~cancelled
          /\ Enqueue(TextFrame(CloseSentinel),
                     Event("Text", "close", CloseSentinel))
          /\ Call("streamChat", "respond",
                  "SOCRATIC_SYSTEM_PROMPT + THINKING_RESPONSE_PROMPT",
                  refinedAnalysisOf(decomposition, critique))
          /\ pc' = "respond"
          /\ UNCHANGED closed
    /\ UNCHANGED <<extendedThinking, decomposition, decomposeSteps, critique,
                   chunks, cancelled, err>>

\* for await (const chunk of streamChat(...)) send({ text: chunk })
RespondChunk(f) ==
    /\ pc = "respond"
    /\ extendedThinking
    /\ Len(chunks) < MaxChunks
    /\ chunks' = Append(chunks, f)
    /\ \/ WriteFails
       \/ /\ ~cancelled
          /\ Enqueue(TextFrame(f), Event("Text", "response", f))
          /\ UNCHANGED <<pc, pending, closed>>
    /\ UNCHANGED <<extendedThinking, decomposition, decomposeSteps, critique,
                   calls, cancelled, err>>

\* controller.enqueue("data: [DONE]\n\n"); controller.close()
RespondEnd ==
    /\ pc = "respond"
    /\ extendedThinking
    /\ \/ WriteFails
       \/ /\ ~cancelled
          /\ Enqueue(DoneFrame, Event("Done", "done", <<>>))
          /\ closed' = TRUE
          /\ pending' = {}
          /\ pc' = "done"
    /\ UNCHANGED <<extendedThinking, decomposition, decomposeSteps, critique,
                   chunks, calls, cancelled, err>>

RespondThrow(m) ==
    /\ pc = "respond"
    /\ extendedThinking
    /\ Catch(m)
    /\ UNCHANGED <<extendedThinking, decomposition, decomposeSteps, critique,
                   chunks, calls, cancelled>>

(***************************************************************************)
(* Normal single pass                                                      *)
(***************************************************************************)
\* streamChat([{ role: "system", content: SOCRATIC_SYSTEM_PROMPT }, ...messages])
SingleStart ==
    /\ pc = "init"
    /\ ~extendedThinking
    /\ Call("streamChat", "single", "SOCRATIC_SYSTEM_PROMPT", <<>>)
    /\ pc' = "respond"
    /\ UNCHANGED <<extendedThinking, decomposition, decomposeSteps, critique,
                   chunks, wire, events, closed, cancelled, err>>

\* a loop body with `if (chunk)` in front of the write
SingleChunkSkipsEmpty(f) ==
    /\ pc = "respond"
    /\ ~extendedThinking
    /\ Len(chunks) < MaxChunks
    /\ chunks' = Append(chunks, f)
    /\ \/ f # <<>> /\ WriteFails
       \/ /\ f # <<>>
          /\ ~cancelled
          /\ Enqueue(TextFrame(f), Event("Text", "response", f))
          /\ UNCHANGED <<pc, pending, closed>>
       \/ /\ f = <<>>
          /\ UNCHANGED <<pc, pending, closed, wire, events>>
    /\ UNCHANGED <<extendedThinking, decomposition, decomposeSteps, critique,
                   calls, cancelled, err>>

SingleChunk(f) ==
    /\ pc = "respond"
    /\ ~extendedThinking
    /\ Len(chunks) < MaxChunks
    /\ chunks' = Append(chunks, f)
    /\ \/ WriteFails
       \/ /\ ~cancelled
          /\ Enqueue(TextFrame(f), Event("Text", "response", f))
          /\ UNCHANGED <<pc, pending, closed>>
    /\ UNCHANGED <<extendedThinking, decomposition, decomposeSteps, critique,
                   calls, cancelled, err>>

SingleEnd ==
    /\ pc = "respond"
    /\ ~extendedThinking
    /\ \/ WriteFails
       \/ /\ ~cancelled
          /\ Enqueue(DoneFrame, Event("Done", "done", <<>>))
          /\ closed' = TRUE
          /\ pending' = {}
          /\ pc' = "done"
    /\ UNCHANGED <<extendedThinking, decomposition, decomposeSteps, critique,
                   chunks, calls, cancelled, err>>

SingleThrow(m) ==
    /\ pc = "respond"
    /\ ~extendedThinking
    /\ Catch(m)
    /\ UNCHANGED <<extendedThinking, decomposition, decomposeSteps, critique,
                   chunks, calls, cancelled>>

(***************************************************************************)
(* Chat page: handleSend from the reader loop to the finally block         *)
(***************************************************************************)
VARIABLES
    cpc,               \* position of handleSend
    rd,                \* frames of wire already read
    fullContent,
    thinkingDone,
    isThinking,
    thinkingComplete,
    thinkingSteps,
    streamingContent,
    isGenerating,
    messages,          \* assistant turns appended by setMessages
    saved              \* assistant messages handed to addMessage

clientVars == <<cpc, rd, fullContent, thinkingDone, isThinking,
                thinkingComplete, thinkingSteps, streamingContent,
                isGenerating, messages, saved>>

\* "null" of timelineEvent and model
Null == <<>>

ErrorPrefix == <<"WARNING SIGN", " ", "E", "r", "r", "o", "r", ":", " ">>

SomethingWentWrong == <<"S", "o", "m", "e", "t", "h", "i", "n", "g", " ", "w", "e", "n", "t", " ", "w", "r", "o", "n", "g", ".", " ", "P", "l", "e", "a", "s", "e", " ", "t", "r", "y", " ", "a", "g", "a", "i", "n", ".">>

\* timelineEvents.length > 0 ? timelineEvents[timelineEvents.length - 1].type : null
mainEventOf(timelineEvents) ==
    IF Len(timelineEvents) > 0 THEN timelineEvents[Len(timelineEvents)].type ELSE Null

\* the locals and React state the reader loop updates
ReaderState ==
    [fullContent |-> fullContent, thinkingDone |-> thinkingDone,
     isThinking |-> isThinking, thinkingComplete |-> thinkingComplete,
     thinkingSteps |-> thinkingSteps, streamingContent |-> streamingContent]

\* fullContent += parsed.text and the thinking-state updates that follow
onText(st, text) ==
    LET full == st.fullContent \o text
        thinkResult == parseThinkingContent(full)
    IN  IF ~extendedThinking
        THEN [st EXCEPT !.fullContent = full, !.streamingContent = full]
        ELSE IF thinkResult.isThinking
        THEN [st EXCEPT !.fullContent = full,
                        !.isThinking = TRUE,
                        !.thinkingSteps = thinkResult.steps,
                        !.streamingContent = <<>>]
        ELSE IF thinkResult.isComplete
        THEN IF ~st.thinkingDone
             THEN [st EXCEPT !.fullContent = full,
                             !.thinkingDone = TRUE,
                             !.isThinking = FALSE,
                             !.thinkingComplete = TRUE,
                             !.thinkingSteps = thinkResult.steps,
                             !.streamingContent = thinkResult.responseContent]
             ELSE [st EXCEPT !.fullContent = full,
                             !.streamingContent = thinkResult.responseContent]
        ELSE [st EXCEPT !.fullContent = full, !.streamingContent = full]

\* the body of `for (const line of lines)`: the throw of parsed.error sits
\* inside the try whose catch skips malformed chunks
\* a loop body whose catch block keeps the text it could not parse
onLineKeepsRaw(st, line) ==
    IF ~startsWithAt(line, DataPrefix, 0) THEN st
    ELSE LET data == sliceFrom(line, 6)
         IN  IF data = DoneLiteral THEN st
             ELSE LET p == jsonParse(data)
                  IN  IF ~p.ok THEN onText(st, data)
                      ELSE IF p.key = ErrorKey /\ p.value # <<>> THEN st
                      ELSE IF p.key = TextKey /\ p.value # <<>>
                      THEN onText(st, p.value)
                      ELSE st

onLine(st, line) ==
    IF ~startsWithAt(line, DataPrefix, 0) THEN st
    ELSE LET data == sliceFrom(line, 6)
         IN  IF data = DoneLiteral THEN st
             ELSE LET p == jsonParse(data)
                  IN  IF ~p.ok THEN st
                      ELSE IF p.key = ErrorKey /\ p.value # <<>> THEN st
                      ELSE IF p.key = TextKey /\ p.value # <<>>
                      THEN onText(st, p.value)
                      ELSE st

RECURSIVE onLines(_, _)
onLines(st, lines) ==
    IF lines = <<>> THEN st
    ELSE CHOOSE r \in {onLines(next, Tail(lines)) :
                         next \in {onLine(st, Head(lines))}} : TRUE

\* one reader.read() that returned the bytes of `chunk`
onChunk(st, chunk) == onLines(st, split(chunk))

\* const { done, value } = await reader.read(), done false
ReadFrame ==
    /\ cpc = "reading"
    /\ rd < Len(wire)
    /\ \E st \in {onChunk(ReaderState, wire[rd + 1])} :
           /\ fullContent' = st.fullContent
           /\ thinkingDone' = st.thinkingDone
           /\ isThinking' = st.isThinking
           /\ thinkingComplete' = st.thinkingComplete
           /\ thinkingSteps' = st.thinkingSteps
           /\ streamingContent' = st.streamingContent
    /\ rd' = rd + 1
    /\ UNCHANGED <<cpc, isGenerating, messages, saved>>

\* done true: strip, derive the flags, finalize the thinking state and hand
\* the assistant message to addMessage
ReadDone ==
    /\ cpc = "reading"
    /\ rd = Len(wire)
    /\ closed
    /\ \E cleanContent \in {IF extendedThinking THEN stripThinkingBlock(fullContent)
                                               ELSE fullContent} :
       \E timelineEvents \in {parseTimelineEvents(cleanContent)} :
           saved' = Append(saved,
                       [role |-> "assistant",
                        content |-> cleanContent,
                        isBreakthrough |-> includes(cleanContent, BreakthroughMarker),
                        timelineEvent |-> mainEventOf(timelineEvents)])
    /\ IF extendedThinking /\ ~thinkingDone
       THEN thinkingComplete' = TRUE /\ isThinking' = FALSE
       ELSE UNCHANGED <<thinkingComplete, isThinking>>
    /\ cpc' = "saving"
    /\ UNCHANGED <<rd, fullContent, thinkingDone, thinkingSteps,
                   streamingContent, isGenerating, messages>>

\* addMessage resolved: setMessages([...prev, assistantMsg]); finally
SaveReturn ==
    /\ cpc = "saving"
    /\ messages' = Append(messages, saved[Len(saved)])
    /\ streamingContent' = <<>>
    /\ isGenerating' = FALSE
    /\ cpc' = "done"
    /\ UNCHANGED <<rd, fullContent, thinkingDone, isThinking, thinkingComplete,
                   thinkingSteps, saved>>

\* catch (err): the error turn; finally
CatchSend(message) ==
    /\ messages' = Append(messages,
                     [role |-> "assistant",
                      content |-> ErrorPrefix \o (IF message = <<>>
                                                  THEN SomethingWentWrong
                                                  ELSE message),
                      isBreakthrough |-> FALSE,
                      timelineEvent |-> Null])
    /\ streamingContent' = <<>>
    /\ isGenerating' = FALSE
    /\ cpc' = "done"

\* addMessage rejected
SaveThrow(m) ==
    /\ cpc = "saving"
    /\ CatchSend(m)
    /\ UNCHANGED <<rd, fullContent, thinkingDone, isThinking, thinkingComplete,
                   thinkingSteps, saved>>

\* the page goes away while the body is being read: the body is cancelled
Cancel ==
    /\ cpc = "reading"
    /\ pc \notin {"init", "done", "error"}
    /\ cancelled' = TRUE
    /\ cpc' = "gone"
    /\ UNCHANGED <<extendedThinking, pc, decomposition, decomposeSteps,
                   critique, chunks, calls, pending, wire, events, closed, err>>
    /\ UNCHANGED <<rd, fullContent, thinkingDone, isThinking, thinkingComplete,
                   thinkingSteps, streamingContent, isGenerating, messages,
                   saved>>

(***************************************************************************)
(* The decoder fed with growing prefixes of one fixed final string: the    *)
(* reader loop appends a fragment to fullContent and re-parses the whole   *)
(* buffer.  Fragments are cut at arbitrary character positions.            *)
(***************************************************************************)
VARIABLES finalString, buffer, parsed

parseVars == <<finalString, buffer, parsed>>

Pieces ==
    { OpenMarker,
      CloseMarker,
      <<"[", "M", "a", "p", "p", "i", "n", "g", "]">>,
      <<"[", "M", "a", "p", "p", "i", "n", "g", "]", " ", "a", "\n">>,
      <<"\n">> }

RECURSIVE concat(_)
concat(ps) == IF ps = <<>> THEN <<>> ELSE Head(ps) \o concat(Tail(ps))

FinalStrings == {concat(ps) : ps \in UNION {[1..n -> Pieces] : n \in 0..MaxPieces}}

ParseIdle ==
    /\ finalString = <<>>
    /\ buffer = <<>>
    /\ parsed = parseThinkingContent(<<>>)

\* one application of a function of the program to given arguments: the
\* function and its arguments, and <<value>> once it has returned
VARIABLES call, result

pureVars == <<call, result>>

NoCall == [fn |-> "none", args |-> <<>>]

PureIdle ==
    /\ call = NoCall
    /\ result = <<>>

\* the chat page before the request is sent: the text box, the signed-in user,
\* the conversation of the page, every invocation of handleSend with its
\* position and the values its closure captured, and the invocations whose
\* fetch("/api/chat") has not settled
VARIABLES input, user, conversationId, sends, inFlight

sendVars == <<input, user, conversationId, sends, inFlight>>

MaxSends == 2

NotInvoked == [at |-> "idle", userMessage |-> <<>>, first |-> FALSE]

SendIdle ==
    /\ input = <<>>
    /\ user = <<>>
    /\ conversationId = <<>>
    /\ sends = [h \in 1..MaxSends |-> NotInvoked]
    /\ inFlight = {}

ServerInit ==
    /\ extendedThinking \in BOOLEAN
    /\ pc = "init"
    /\ decomposition = <<>>
    /\ decomposeSteps = <<>>
    /\ critique = <<>>
    /\ chunks = <<>>
    /\ calls = <<>>
    /\ pending = {}
    /\ wire = <<>>
    /\ events = <<>>
    /\ closed = FALSE
    /\ cancelled = FALSE
    /\ err = <<>>

\* fetch has resolved with response.ok; setIsGenerating(true) and the reset
\* of the thinking state have run
ClientInit ==
    /\ cpc = "reading"
    /\ rd = 0
    /\ fullContent = <<>>
    /\ thinkingDone = FALSE
    /\ isThinking = FALSE
    /\ thinkingComplete = FALSE
    /\ thinkingSteps = <<>>
    /\ streamingContent = <<>>
    /\ isGenerating = TRUE
    /\ messages = <<>>
    /\ saved = <<>>

vars == <<serverVars, clientVars, parseVars, pureVars, sendVars>>

Init == ServerInit /\ ClientInit /\ ParseIdle /\ PureIdle /\ SendIdle

\* the orchestrator and the reader run concurrently: one step of either
clientIdle == UNCHANGED <<clientVars, parseVars, pureVars, sendVars>>

serverIdle == UNCHANGED <<serverVars, parseVars, pureVars, sendVars>>

Next ==
    \/ ExtStart /\ clientIdle
    \/ \E d \in DecomposeResults : DecomposeReturn(d) /\ clientIdle
    \/ \E m \in FailureMessages : DecomposeThrow(m) /\ clientIdle
    \/ ReplayStep /\ clientIdle
    \/ SendCritiquing /\ clientIdle
    \/ CallCritique /\ clientIdle
    \/ \E c \in CritiqueResults : CritiqueReturn(c) /\ clientIdle
    \/ \E m \in FailureMessages : CritiqueThrow(m) /\ clientIdle
    \/ SendValidating /\ clientIdle
    \/ CloseThink /\ clientIdle
    \/ \E f \in Fragments : RespondChunk(f) /\ clientIdle
    \/ RespondEnd /\ clientIdle
    \/ \E m \in FailureMessages : RespondThrow(m) /\ clientIdle
    \/ SingleStart /\ clientIdle
    \/ \E f \in Fragments : SingleChunk(f) /\ clientIdle
    \/ SingleEnd /\ clientIdle
    \/ \E m \in FailureMessages : SingleThrow(m) /\ clientIdle
    \/ ReadFrame /\ serverIdle
    \/ ReadDone /\ serverIdle
    \/ SaveReturn /\ serverIdle
    \/ \E m \in FailureMessages : SaveThrow(m) /\ serverIdle
    \/ Cancel /\ UNCHANGED <<parseVars, pureVars, sendVars>>

Spec == Init /\ [][Next]_vars

\* the request of the decoder runs: nothing is sent
SystemIdle ==
    /\ ServerInit
    /\ extendedThinking = TRUE
    /\ ClientInit
    /\ SendIdle

ParseInit ==
    /\ finalString \in FinalStrings
    /\ buffer = <<>>
    /\ parsed = parseThinkingContent(<<>>)
    /\ SystemIdle
    /\ PureIdle

\* fullContent += parsed.text; parseThinkingContent(fullContent)
AppendChunk(k) ==
    /\ Len(buffer) + k <= Len(finalString)
    /\ buffer' = SubSeq(finalString, 1, Len(buffer) + k)
    /\ parsed' = parseThinkingContent(buffer')
    /\ UNCHANGED <<finalString, serverVars, clientVars, pureVars, sendVars>>

ParseNext == \E k \in 1..Len(finalString) : AppendChunk(k)

ParseSpec == ParseInit /\ [][ParseNext]_vars

(***************************************************************************)
(* Functions applied to given arguments                                    *)
(***************************************************************************)
othersIdle == UNCHANGED <<serverVars, clientVars, parseVars, sendVars>>

\* the call returns `value`
Returns(fn, value) ==
    /\ call.fn = fn
    /\ result = <<>>
    /\ result' = <<value>>
    /\ UNCHANGED call
    /\ othersIdle

MaxInnerPieces == 2

\* a + "<think>" + x + "</think>" + b
Wrapped(a, x, b) == a \o OpenMarker \o x \o CloseMarker \o b

StripOuter ==
    { <<>>, <<"a">>, <<"b">>, <<" ", "a">>, <<"b", " ">>, <<"\n", "b">>,
      OpenMarker, CloseMarker,
      OpenMarker \o <<"b">> \o CloseMarker }

StripInnerPieces == { <<"x">>, <<"\n">>, OpenMarker, CloseMarker }

StripInner ==
    {concat(ps) : ps \in UNION {[1..n -> StripInnerPieces] : n \in 0..MaxInnerPieces}}

StripCalls ==
    {[fn |-> "stripThinkingBlock", args |-> <<a, x, b>>] :
        a \in StripOuter, x \in StripInner, b \in StripOuter}

stripThinkingBlockReturns ==
    Returns("stripThinkingBlock",
            stripThinkingBlock(Wrapped(call.args[1], call.args[2], call.args[3])))

(***************************************************************************)
(* getProviderForModel and the checks POST makes before it opens a stream  *)
(***************************************************************************)
Gemini == <<"g", "e", "m", "i", "n", "i">>

OpenAI == <<"o", "p", "e", "n", "a", "i">>

Anthropic == <<"a", "n", "t", "h", "r", "o", "p", "i", "c">>

Groq == <<"g", "r", "o", "q">>

\* the same rules with the test for groq in front of the prefix tests
getProviderForModelGroqFirst(modelId) ==
    IF includes(modelId, <<"g", "r", "o", "q">>) THEN Groq
    ELSE IF startsWithAt(modelId, <<"g", "e", "m", "i", "n", "i">>, 0) THEN Gemini
    ELSE IF startsWithAt(modelId, <<"g", "p", "t">>, 0) THEN OpenAI
    ELSE IF startsWithAt(modelId, <<"c", "l", "a", "u", "d", "e">>, 0) THEN Anthropic
    ELSE Groq

getProviderForModel(modelId) ==
    IF startsWithAt(modelId, <<"g", "e", "m", "i", "n", "i">>, 0) THEN Gemini
    ELSE IF startsWithAt(modelId, <<"g", "p", "t">>, 0) THEN OpenAI
    ELSE IF startsWithAt(modelId, <<"c", "l", "a", "u", "d", "e">>, 0) THEN Anthropic
    ELSE IF \/ startsWithAt(modelId, <<"l", "l", "a", "m", "a">>, 0)
            \/ includes(modelId, <<"g", "r", "o", "q">>) THEN Groq
    ELSE Groq

\* the default of the destructured `model`
DefaultModel == <<"l", "l", "a", "m", "a", "-", "3", ".", "3", "-", "7", "0", "b", "-", "v", "e", "r", "s", "a", "t", "i", "l", "e">>

MessagesAreRequired == <<"M", "e", "s", "s", "a", "g", "e", "s", " ", "a", "r", "e", " ", "r", "e", "q", "u", "i", "r", "e", "d">>

NoApiKeyAvailableFor(provider) ==
    <<"N", "o", " ", "A", "P", "I", " ", "k", "e", "y", " ", "a", "v", "a", "i", "l", "a", "b", "l", "e", " ", "f", "o", "r", " ">>
    \o provider
    \o <<".", " ", "P", "l", "e", "a", "s", "e", " ", "a", "d", "d", " ", "o", "n", "e", " ", "i", "n", " ", "S", "e", "t", "t", "i", "n", "g", "s", ".">>

\* x || y on strings
orElse(x, y) == IF x # <<>> THEN x ELSE y

\* apiKeys?.[name]
keyOf(body, name) == IF body.hasKeys THEN body.apiKeys[name] ELSE <<>>

\* the switch over the provider
apiKeyOf(provider, body, env) ==
    IF provider = Gemini THEN orElse(keyOf(body, "google"), env.GEMINI_API_KEY)
    ELSE IF provider = OpenAI THEN keyOf(body, "openai")
    ELSE IF provider = Anthropic THEN keyOf(body, "anthropic")
    ELSE orElse(keyOf(body, "groq"), env.GROQ_API_KEY)

\* NextResponse.json({ error }, { status: 400 })
BadRequest(error) == [status |-> 400, error |-> error, streamOpened |-> FALSE]

\* new Response(stream, ...): the orchestrator starts
Streaming == [status |-> 200, error |-> <<>>, streamOpened |-> TRUE]

\* the same checks without the test for an empty array
POSTValidationAcceptsEmpty(body, env) ==
    LET model    == IF body.hasModel THEN body.model ELSE DefaultModel
        provider == getProviderForModel(model)
        apiKey   == apiKeyOf(provider, body, env)
    IN  IF body.messages.kind # "array"
        THEN BadRequest(MessagesAreRequired)
        ELSE IF apiKey = <<>>
        THEN BadRequest(NoApiKeyAvailableFor(provider))
        ELSE Streaming

POSTValidation(body, env) ==
    LET model    == IF body.hasModel THEN body.model ELSE DefaultModel
        provider == getProviderForModel(model)
        apiKey   == apiKeyOf(provider, body, env)
    IN  IF \/ body.messages.kind = "undefined"
           \/ body.messages.kind # "array"
           \/ Len(body.messages.items) = 0
        THEN BadRequest(MessagesAreRequired)
        ELSE IF apiKey = <<>>
        THEN BadRequest(NoApiKeyAvailableFor(provider))
        ELSE Streaming

ModelIds ==
    { <<"g", "e", "m", "i", "n", "i", "-", "2", ".", "0", "-", "f", "l", "a", "s", "h">>,
      <<"g", "p", "t", "-", "4", "o">>,
      <<"c", "l", "a", "u", "d", "e", "-", "3", "-", "h", "a", "i", "k", "u">>,
      DefaultModel,
      <<"m", "i", "x", "t", "r", "a", "l", "-", "g", "r", "o", "q">>,
      <<"m", "i", "s", "t", "r", "a", "l">>,
      <<"G", "P", "T", "-", "4">>,
      <<"m", "y", "-", "g", "p", "t">>,
      <<>> }

KeyValues == { <<>>, <<"k">> }

MessagesValues ==
    { [kind |-> "undefined", items |-> <<>>],
      [kind |-> "object", items |-> <<>>],
      [kind |-> "array", items |-> <<>>],
      [kind |-> "array", items |-> <<[role |-> "user", content |-> <<"h", "i">>]>>] }

ApiKeysValues == [google : KeyValues, openai : KeyValues, anthropic : KeyValues, groq : KeyValues]

NoKeys == [google |-> <<>>, openai |-> <<>>, anthropic |-> <<>>, groq |-> <<>>]

Bodies ==
    {[messages |-> m, hasModel |-> TRUE, model |-> id, hasKeys |-> TRUE, apiKeys |-> k] :
        m \in MessagesValues, id \in ModelIds, k \in ApiKeysValues}
    \cup
    {[messages |-> m, hasModel |-> FALSE, model |-> <<>>, hasKeys |-> hk, apiKeys |-> NoKeys] :
        m \in MessagesValues, hk \in BOOLEAN}

Environments == [GEMINI_API_KEY : KeyValues, GROQ_API_KEY : KeyValues]

ValidationCalls ==
    {[fn |-> "POST", args |-> <<body, env>>] : body \in Bodies, env \in Environments}

POSTValidationReturns ==
    Returns("POST", POSTValidation(call.args[1], call.args[2]))

(***************************************************************************)
(* One event through the route's encoding and the page's line decoder      *)
(***************************************************************************)
StreamEvent(type, text) == [type |-> type, text |-> text]

\* the three enqueue forms of the route
encodeEvent(ev) ==
    IF ev.type = "Text" THEN TextFrame(ev.text)
    ELSE IF ev.type = "Error" THEN ErrorFrame(ev.text)
    ELSE DoneFrame

\* what one line of a chunk is recognised as: <<>> when the loop passes over it
decodeLine(line) ==
    IF ~startsWithAt(line, DataPrefix, 0) THEN <<>>
    ELSE LET data == sliceFrom(line, 6)
         IN  IF data = DoneLiteral THEN <<StreamEvent("Done", <<>>)>>
             ELSE LET p == jsonParse(data)
                  IN  IF ~p.ok THEN <<>>
                      ELSE IF p.key = ErrorKey /\ p.value # <<>>
                      THEN <<StreamEvent("Error", p.value)>>
                      ELSE IF p.key = TextKey /\ p.value # <<>>
                      THEN <<StreamEvent("Text", p.value)>>
                      ELSE <<>>

RECURSIVE decodeLines(_)
decodeLines(lines) ==
    IF lines = <<>> THEN <<>>
    ELSE decodeLine(Head(lines)) \o decodeLines(Tail(lines))

\* the events one reader.read() of `chunk` is recognised as
decodeChunk(chunk) == decodeLines(split(chunk))

MaxPayloadPieces == 2

PayloadPieces ==
    { <<"a">>, <<"\"">>, <<"\\">>, <<"\n">>, <<"\r">>, <<"\t">>, <<"\\", "n">>,
      <<"}">>, <<"\n", "\n">>, DoneLiteral, DataPrefix,
      <<"\n", "\n", "d", "a", "t", "a", ":", " ", "[", "D", "O", "N", "E", "]">> }

Payloads ==
    {concat(ps) : ps \in UNION {[1..n -> PayloadPieces] : n \in 0..MaxPayloadPieces}}

\* the events the route can write: the message of an Error is never empty
StreamEvents ==
    {StreamEvent("Text", t) : t \in Payloads}
    \cup {StreamEvent("Error", t) : t \in Payloads \ {<<>>}}
    \cup {StreamEvent("Done", <<>>)}

EncodeCalls == {[fn |-> "encodeEvent", args |-> <<ev>>] : ev \in StreamEvents}

encodeEventReturns ==
    /\ call.fn = "encodeEvent"
    /\ \E fr \in {encodeEvent(call.args[1])} :
           Returns("encodeEvent", [frame |-> fr, decoded |-> decodeChunk(fr)])

(***************************************************************************)
(* Both copies of the tag extractor on one raw text                        *)
(***************************************************************************)
MaxRawPieces == 3

RawPieces ==
    { <<"[", "M", "A", "P", "P", "I", "N", "G", "]">>,
      <<"[", "r", "e", "f", "i", "n", "i", "n", "g", "]">>,
      <<"[", "N", "O", "T", "E", "]">>,
      <<" ", "a">>, <<"b", " ">>, <<"\n">>, <<" ">> }

RawTexts ==
    {concat(ps) : ps \in UNION {[1..n -> RawPieces] : n \in 0..MaxRawPieces}}

ExtractCalls == {[fn |-> "extractThinkingSteps", args |-> <<raw>>] : raw \in RawTexts}

extractThinkingStepsReturns ==
    /\ call.fn = "extractThinkingSteps"
    /\ Returns("extractThinkingSteps",
               [client |-> extractThinkingSteps(call.args[1]),
                server |-> extractSteps(call.args[1])])

(***************************************************************************)
(* The adapters: the request each backend call is made with.  `system` is  *)
(* what goes into the backend's system parameter (<<>> when the call has   *)
(* none), `messages` are the conversation messages of the request.         *)
(***************************************************************************)
SOCRATIC_SYSTEM_PROMPT == <<"p", "e", "r", "s", "o", "n", "a">>

BackendRequest(backend, stream, system, msgs) ==
    [backend |-> backend, stream |-> stream, system |-> system, messages |-> msgs]

\* messages.find(m => m.role === "system"): <<>> for undefined
findSystem(msgs) ==
    LET at == {i \in 1..Len(msgs) : msgs[i].role = "system"}
    IN  IF at = {} THEN <<>>
        ELSE <<msgs[CHOOSE i \in at : \A j \in at : i <= j]>>

\* messages.filter(m => m.role !== "system")
withoutSystem(msgs) == SelectSeq(msgs, LAMBDA m : m.role # "system")

geminiRequest(msgs, stream) ==
    LET systemMessage == findSystem(msgs)
        systemInstruction == IF systemMessage # <<>> THEN systemMessage[1].content
                                                   ELSE SOCRATIC_SYSTEM_PROMPT
        kept == withoutSystem(msgs)
        history == [i \in 1..(Len(kept) - 1) |->
                       [role |-> IF kept[i].role = "assistant" THEN "model" ELSE "user",
                        content |-> kept[i].content]]
        lastMessage == msgs[Len(msgs)]
    IN  BackendRequest("gemini", stream, <<systemInstruction>>,
                       Append(history, [role |-> "user", content |-> lastMessage.content]))

openaiRequest(msgs, stream) ==
    BackendRequest("openai", stream, <<>>,
                   [i \in 1..Len(msgs) |-> [role |-> msgs[i].role, content |-> msgs[i].content]])

anthropicRequest(msgs, stream) ==
    LET systemMsg == findSystem(msgs)
        chatMsgs == withoutSystem(msgs)
        system == IF systemMsg # <<>> /\ systemMsg[1].content # <<>>
                  THEN systemMsg[1].content
                  ELSE SOCRATIC_SYSTEM_PROMPT
    IN  BackendRequest("anthropic", stream, <<system>>, chatMsgs)

groqRequest(msgs, stream) ==
    BackendRequest("groq", stream, <<>>,
                   [i \in 1..Len(msgs) |-> [role |-> msgs[i].role, content |-> msgs[i].content]])

streamGemini(msgs) == geminiRequest(msgs, TRUE)

completeGemini(msgs) == geminiRequest(msgs, FALSE)

streamOpenAI(msgs) == openaiRequest(msgs, TRUE)

completeOpenAI(msgs) == openaiRequest(msgs, FALSE)

streamAnthropic(msgs) == anthropicRequest(msgs, TRUE)

completeAnthropic(msgs) == anthropicRequest(msgs, FALSE)

streamGroq(msgs) == groqRequest(msgs, TRUE)

completeGroq(msgs) == groqRequest(msgs, FALSE)

streamChat(provider, msgs) ==
    IF provider = Gemini THEN streamGemini(msgs)
    ELSE IF provider = OpenAI THEN streamOpenAI(msgs)
    ELSE IF provider = Anthropic THEN streamAnthropic(msgs)
    ELSE streamGroq(msgs)

completeChat(provider, msgs) ==
    IF provider = Gemini THEN completeGemini(msgs)
    ELSE IF provider = OpenAI THEN completeOpenAI(msgs)
    ELSE IF provider = Anthropic THEN completeAnthropic(msgs)
    ELSE completeGroq(msgs)

MaxMessages == 2

ChatMessages ==
    { [role |-> "system", content |-> <<"s">>],
      [role |-> "system", content |-> <<"t">>],
      [role |-> "system", content |-> <<>>],
      [role |-> "user", content |-> <<"h", "i">>],
      [role |-> "assistant", content |-> <<"y", "o">>] }

MessageLists == UNION {[1..n -> ChatMessages] : n \in 1..MaxMessages}

ProviderNames == {Gemini, OpenAI, Anthropic, Groq}

ChatCalls ==
    {[fn |-> f, args |-> <<p, msgs>>] :
        f \in {"streamChat", "completeChat"}, p \in ProviderNames, msgs \in MessageLists}

streamChatReturns ==
    /\ call.fn = "streamChat"
    /\ Returns("streamChat", streamChat(call.args[1], call.args[2]))

completeChatReturns ==
    /\ call.fn = "completeChat"
    /\ Returns("completeChat", completeChat(call.args[1], call.args[2]))

(***************************************************************************)
(* parseTimelineEvents on one clean response text and the timelineEvent    *)
(* that handleSend derives from its result                                 *)
(***************************************************************************)
MaxContentPieces == 3

\* a line of 85 characters whose 80th character is a blank
LongLine == [i \in 1..85 |-> IF i = 80 THEN " " ELSE IF i < 80 THEN "x" ELSE "y"]

\* a line of 85 characters without a blank
LongWord == [i \in 1..85 |-> "x"]

ContentPieces ==
    { <<"[", "I", "N", "S", "I", "G", "H", "T", "]">>,
      <<"[", "q", "u", "e", "s", "t", "i", "o", "n", "]">>,
      <<"[", "N", "O", "T", "E", "]">>,
      <<" ", "a">>, <<"\n">>, <<"b", "\n", "c">>,
      LongLine, LongWord }

Contents ==
    {concat(ps) : ps \in UNION {[1..n -> ContentPieces] : n \in 0..MaxContentPieces}}

TimelineCalls == {[fn |-> "parseTimelineEvents", args |-> <<c>>] : c \in Contents}

parseTimelineEventsReturns ==
    /\ call.fn = "parseTimelineEvents"
    /\ \E timelineEvents \in {parseTimelineEvents(call.args[1])} :
           Returns("parseTimelineEvents",
                   [events |-> timelineEvents, mainEvent |-> mainEventOf(timelineEvents)])

(***************************************************************************)
(* getProviderForModel on one model identifier                             *)
(***************************************************************************)
MaxIdPieces == 3

IdPieces ==
    { <<"g", "e", "m", "i", "n", "i">>, <<"g", "p", "t">>, <<"G", "P", "T">>,
      <<"c", "l", "a", "u", "d", "e">>, <<"l", "l", "a", "m", "a">>,
      <<"g", "r", "o", "q">>, <<"-", "x">> }

Identifiers ==
    {concat(ps) : ps \in UNION {[1..n -> IdPieces] : n \in 0..MaxIdPieces}}

ProviderCalls == {[fn |-> "getProviderForModel", args |-> <<id>>] : id \in Identifiers}

getProviderForModelReturns ==
    /\ call.fn = "getProviderForModel"
    /\ Returns("getProviderForModel", getProviderForModel(call.args[1]))

PureInit ==
    /\ \/ call \in StripCalls
       \/ call \in ValidationCalls
       \/ call \in EncodeCalls
       \/ call \in ExtractCalls
       \/ call \in ChatCalls
       \/ call \in TimelineCalls
       \/ call \in ProviderCalls
    /\ result = <<>>
    /\ SystemIdle
    /\ ParseIdle

PureNext ==
    \/ stripThinkingBlockReturns
    \/ POSTValidationReturns
    \/ encodeEventReturns
    \/ extractThinkingStepsReturns
    \/ streamChatReturns
    \/ completeChatReturns
    \/ parseTimelineEventsReturns
    \/ getProviderForModelReturns

PureSpec == PureInit /\ [][PureNext]_vars

(***************************************************************************)
(* The reader loop fed with reads that hold a whole Text frame or a piece   *)
(* of a frame that is not valid JSON                                       *)
(***************************************************************************)
MaxReads == 3

ReadTexts == { <<"a">>, OpenMarker \o <<"\n">>, CloseMarker \o <<"b">> }

\* pieces of frames and frames with a broken payload
BrokenReads ==
    { <<"d", "a", "t", "a", ":", " ", "{", "\"", "t", "e", "x", "t", "\"", ":", "\"", "a">>,
      <<"b", "\"", "}", "\n", "\n">>,
      <<"d", "a", "t", "a", ":", " ">>,
      <<"d", "a", "t", "a", ":", " ", "{", "\"", "t", "e", "x", "t", "\"", ":", "\"", "a", "\\">>,
      <<"d", "a", "t", "a", ":", " ", "{", "t", "e", "x", "t", ":", "\"", "a", "\"", "}", "\n", "\n">>,
      <<"d", "a", "t", "a", ":", " ", "{", "\"", "t", "e", "x", "t", "\"", ":", "\"", "a", "\"", "}", "}", "\n", "\n">> }

Reads ==
    {[kind |-> "text", text |-> t, bytes |-> TextFrame(t)] : t \in ReadTexts}
    \cup {[kind |-> "broken", text |-> <<>>, bytes |-> b] : b \in BrokenReads}

ReadCalls ==
    {[fn |-> "read", args |-> rs] : rs \in UNION {[1..n -> Reads] : n \in 1..MaxReads}}

MaxCuts == 2

\* what the route writes for the fragments, as one run of bytes
byteStream(fragments) == concat([i \in 1..Len(fragments) |-> TextFrame(fragments[i])])

\* the pieces of the stream between the cuts; a cut at c separates the first
\* c characters from the rest
segmentsOf(stream, cuts) ==
    LET bounds == cuts \cup {0, Len(stream)}
        nth(k) == CHOOSE b \in bounds : Cardinality({x \in bounds : x < b}) = k
    IN  [k \in 1..(Cardinality(bounds) - 1) |->
            SubSeq(stream, nth(k - 1) + 1, nth(k))]

SentFragments == { <<<<"a">>>>, <<<<"a">>, <<"b">>>> }

\* the fragments the server sent and the places where the network cut the
\* stream into reads
\* the sets of at most n cuts inside a stream of `len` characters
RECURSIVE CutSets(_, _)
CutSets(len, n) ==
    IF n = 0 THEN {{}}
    ELSE LET fewer == CutSets(len, n - 1)
         IN  fewer \cup {c \cup {x} : c \in fewer, x \in 1..(len - 1)}

SegmentedCalls ==
    UNION {{[fn |-> "segmented", args |-> <<fs, cuts>>] :
               cuts \in CutSets(Len(byteStream(fs)), MaxCuts)} : fs \in SentFragments}

\* the response is being streamed; what the reads return is fixed beforehand
ReadInit ==
    /\ \/ /\ call \in ReadCalls
          /\ wire = [i \in 1..Len(call.args) |-> call.args[i].bytes]
       \/ /\ call \in SegmentedCalls
          /\ wire = segmentsOf(byteStream(call.args[1]), call.args[2])
    /\ result = <<>>
    /\ extendedThinking \in BOOLEAN
    /\ pc = "respond"
    /\ decomposition = <<>>
    /\ decomposeSteps = <<>>
    /\ critique = <<>>
    /\ chunks = <<>>
    /\ calls = <<>>
    /\ pending = {}
    /\ events = <<>>
    /\ closed = FALSE
    /\ cancelled = FALSE
    /\ err = <<>>
    /\ ClientInit
    /\ ParseIdle
    /\ SendIdle

ReadNext ==
    \/ ReadFrame /\ serverIdle

ReadSpec == ReadInit /\ [][ReadNext]_vars

(***************************************************************************)
(* handleSend from the key press to the end of its finally block, invoked  *)
(* up to MaxSends times on one page while the user keeps typing            *)
(***************************************************************************)
Typed == { <<" ">>, <<"h", "i">> }

Uid == <<"u">>

ConversationIds == { <<"c">> }

userMsg(content) == [role |-> "user", content |-> content]

assistantMsg(content) == [role |-> "assistant", content |-> content]

errorMsg == assistantMsg(ErrorPrefix \o SomethingWentWrong)

EarlierMessages == { <<>>, <<userMsg(<<"h", "i">>), assistantMsg(<<"o", "k">>)>> }

systemQuiet == UNCHANGED <<serverVars, parseVars, pureVars, cpc, rd, fullContent, thinkingDone, saved>>

thinkingKept == UNCHANGED <<isThinking, thinkingComplete, thinkingSteps>>

SendInit ==
    /\ ServerInit
    /\ ParseIdle
    /\ PureIdle
    /\ cpc = "idle"
    /\ rd = 0
    /\ fullContent = <<>>
    /\ thinkingDone = FALSE
    /\ isThinking = FALSE
    /\ thinkingComplete = FALSE
    /\ thinkingSteps = <<>>
    /\ streamingContent = <<>>
    /\ isGenerating = FALSE
    /\ messages \in EarlierMessages
    /\ saved = <<>>
    /\ input = <<>>
    /\ user \in {Null, Uid}
    /\ conversationId \in {Null} \cup ConversationIds
    /\ sends = [h \in 1..MaxSends |-> NotInvoked]
    /\ inFlight = {}

\* handleTextareaChange; the textarea is disabled while isGenerating
handleTextareaChange(value) ==
    /\ ~isGenerating
    /\ value # input
    /\ input' = value
    /\ UNCHANGED <<user, conversationId, sends, inFlight>>
    /\ UNCHANGED <<isGenerating, streamingContent, messages>>
    /\ thinkingKept
    /\ systemQuiet

\* the next key press or click invokes handleSend, with the state of the last render
Invoked(h) ==
    /\ sends[h].at = "idle"
    /\ \A g \in 1..(h - 1) : sends[g].at # "idle"

\* if (!input.trim() || isGenerating || !user) return;
Guard == trim(input) = <<>> \/ isGenerating \/ user = Null

handleSendReturns(h) ==
    /\ Invoked(h)
    /\ Guard
    /\ sends' = [sends EXCEPT ![h].at = "returned"]
    /\ UNCHANGED <<input, user, conversationId, inFlight>>
    /\ UNCHANGED <<isGenerating, streamingContent, messages>>
    /\ thinkingKept
    /\ systemQuiet

\* setInput(""); setMessages((prev) => [...prev, tempUserMsg]); then the
\* handler awaits addMessage
Optimistic(h, captured) ==
    /\ input' = <<>>
    /\ messages' = Append(messages, userMsg(captured.userMessage))
    /\ sends' = [sends EXCEPT ![h] = [captured EXCEPT !.at = "saving"]]

\* past the guard: with a conversation the handler goes on to the optimistic
\* add, without one it awaits createConversation first
handleSendStarts(h) ==
    /\ Invoked(h)
    /\ ~Guard
    /\ \E captured \in {[at |-> "creating", userMessage |-> trim(input),
                         first |-> Len(messages) = 0]} :
          IF conversationId = Null
          THEN /\ sends' = [sends EXCEPT ![h] = captured]
               /\ UNCHANGED <<input, messages>>
          ELSE Optimistic(h, captured)
    /\ UNCHANGED <<user, conversationId, inFlight>>
    /\ UNCHANGED <<isGenerating, streamingContent>>
    /\ thinkingKept
    /\ systemQuiet

\* activeId = await createConversation(...); setActiveConvId(activeId)
createConversationResolves(h, id) ==
    /\ sends[h].at = "creating"
    /\ conversationId' = id
    /\ Optimistic(h, sends[h])
    /\ UNCHANGED <<user, inFlight>>
    /\ UNCHANGED <<isGenerating, streamingContent>>
    /\ thinkingKept
    /\ systemQuiet

\* catch (error) { console.error(...); return; }
createConversationRejects(h) ==
    /\ sends[h].at = "creating"
    /\ sends' = [sends EXCEPT ![h].at = "returned"]
    /\ UNCHANGED <<input, user, conversationId, inFlight>>
    /\ UNCHANGED <<isGenerating, streamingContent, messages>>
    /\ thinkingKept
    /\ systemQuiet

\* setIsGenerating(true); the stream state is reset; fetch("/api/chat") is sent
StreamAIResponse(h) ==
    /\ isGenerating' = TRUE
    /\ streamingContent' = <<>>
    /\ thinkingSteps' = <<>>
    /\ isThinking' = FALSE
    /\ thinkingComplete' = FALSE
    /\ inFlight' = inFlight \cup {h}
    /\ sends' = [sends EXCEPT ![h].at = "streaming"]
    /\ UNCHANGED <<input, user, conversationId, messages>>
    /\ systemQuiet

\* await addMessage(activeId, user.uid, "user", userMessage) resolved
addMessageResolves(h) ==
    /\ sends[h].at = "saving"
    /\ IF sends[h].first
       THEN /\ sends' = [sends EXCEPT ![h].at = "titling"]
            /\ UNCHANGED <<input, user, conversationId, inFlight>>
            /\ UNCHANGED <<isGenerating, streamingContent, messages>>
            /\ thinkingKept
            /\ systemQuiet
       ELSE StreamAIResponse(h)

\* await updateConversation(activeId, { title }) resolved
updateConversationResolves(h) ==
    /\ sends[h].at = "titling"
    /\ StreamAIResponse(h)

\* catch (err) { setMessages(... errorMsg); setStreamingContent(""); }
\* finally { setIsGenerating(false); }
Caught(h) ==
    /\ messages' = Append(messages, errorMsg)
    /\ streamingContent' = <<>>
    /\ isGenerating' = FALSE
    /\ inFlight' = inFlight \ {h}
    /\ sends' = [sends EXCEPT ![h].at = "finished"]
    /\ UNCHANGED <<input, user, conversationId>>
    /\ thinkingKept
    /\ systemQuiet

addMessageRejects(h) ==
    /\ sends[h].at = "saving"
    /\ Caught(h)

updateConversationRejects(h) ==
    /\ sends[h].at = "titling"
    /\ Caught(h)

\* the fetch rejected, the response was not ok or a read threw
responseFails(h) ==
    /\ sends[h].at = "streaming"
    /\ Caught(h)

\* the reader reported done; the handler awaits addMessage of the assistant turn
responseRead(h) ==
    /\ sends[h].at = "streaming"
    /\ inFlight' = inFlight \ {h}
    /\ sends' = [sends EXCEPT ![h].at = "persisting"]
    /\ UNCHANGED <<input, user, conversationId>>
    /\ UNCHANGED <<isGenerating, streamingContent, messages>>
    /\ thinkingKept
    /\ systemQuiet

\* setMessages(... assistantMsg); setStreamingContent(""); finally { setIsGenerating(false); }
assistantSaved(h, content) ==
    /\ sends[h].at = "persisting"
    /\ messages' = Append(messages, assistantMsg(content))
    /\ streamingContent' = <<>>
    /\ isGenerating' = FALSE
    /\ sends' = [sends EXCEPT ![h].at = "finished"]
    /\ UNCHANGED <<input, user, conversationId, inFlight>>
    /\ thinkingKept
    /\ systemQuiet

assistantSaveRejects(h) ==
    /\ sends[h].at = "persisting"
    /\ Caught(h)

SendNext ==
    \/ \E value \in Typed : handleTextareaChange(value)
    \/ \E h \in 1..MaxSends : handleSendReturns(h)
    \/ \E h \in 1..MaxSends : handleSendStarts(h)
    \/ \E h \in 1..MaxSends : \E id \in ConversationIds : createConversationResolves(h, id)
    \/ \E h \in 1..MaxSends : createConversationRejects(h)
    \/ \E h \in 1..MaxSends : addMessageResolves(h)
    \/ \E h \in 1..MaxSends : addMessageRejects(h)
    \/ \E h \in 1..MaxSends : updateConversationResolves(h)
    \/ \E h \in 1..MaxSends : updateConversationRejects(h)
    \/ \E h \in 1..MaxSends : responseRead(h)
    \/ \E h \in 1..MaxSends : responseFails(h)
    \/ \E h \in 1..MaxSends : assistantSaved(h, <<"o", "k">>)
    \/ \E h \in 1..MaxSends : assistantSaveRejects(h)

SendSpec == SendInit /\ [][SendNext]_vars

(***************************************************************************)
(* Properties of the decoder                                               *)
(***************************************************************************)
IsPrefix(s, t) == Len(s) <= Len(t) /\ \A i \in 1..Len(s) : s[i] = t[i]

\* pat occurs in s at 0-based index i
Occurs(s, pat, i) ==
    /\ i >= 0
    /\ i + Len(pat) <= Len(s)
    /\ [k \in 1..Len(pat) |-> s[i + k]] = pat

Contains(s, pat) == \E i \in 0..Len(s) : Occurs(s, pat, i)

FirstOccurrence(s, pat, i) ==
    Occurs(s, pat, i) /\ \A j \in 0..(i - 1) : ~Occurs(s, pat, j)

\* the characters of s at 1-based positions lo+1 .. hi (none when hi <= lo)
Between(s, lo, hi) == [k \in 1..(hi - lo) |-> s[lo + k]]

\* t is s without its leading and trailing white space
IsTrimOf(t, s) ==
    \E a \in 0..Len(s) : \E b \in a..Len(s) :
        /\ t = Between(s, a, b)
        /\ \A p \in 1..a : s[p] \in Whitespace
        /\ \A p \in (b + 1)..Len(s) : s[p] \in Whitespace
        /\ t # <<>> => (t[1] \notin Whitespace /\ t[Len(t)] \notin Whitespace)

\* the buffer holds a block: its first open marker ends before its first
\* close marker
OpenBeforeClose ==
    \E o \in 0..Len(buffer) : \E c \in 0..Len(buffer) :
        /\ FirstOccurrence(buffer, OpenMarker, o)
        /\ FirstOccurrence(buffer, CloseMarker, c)
        /\ o + 7 <= c

\* C6: the ParseState of every buffer never has isThinking and isComplete
\* both true, and its responseContent is non-empty only if isComplete is true
\* or the buffer contains no open marker.
C6_ParseStateInvariant ==
    /\ ~(parsed.isThinking /\ parsed.isComplete)
    /\ parsed.responseContent # <<>>
          => (parsed.isComplete \/ ~Contains(buffer, OpenMarker))

\* a buffer with both markers whose response text is shown
C6_Witness ==
    /\ OpenBeforeClose
    /\ parsed.isComplete
    /\ parsed.responseContent # <<>>

\* C7: parseThinkingContent equals the three-case reference: no open marker
\* (pass-through), open marker without close marker (thinking), both markers
\* (complete).
C7_ThreeCaseReference ==
    LET hasOpen  == Contains(buffer, OpenMarker)
        hasClose == Contains(buffer, CloseMarker)
    IN  /\ ~hasOpen =>
              /\ parsed.responseContent = buffer
              /\ parsed.steps = <<>>
              /\ ~parsed.isThinking
              /\ ~parsed.isComplete
        /\ (hasOpen /\ ~hasClose) =>
              /\ parsed.isThinking
              /\ \A o \in 0..Len(buffer) :
                    FirstOccurrence(buffer, OpenMarker, o) =>
                        parsed.rawThinking = Between(buffer, o + 7, Len(buffer))
              /\ parsed.steps = extractThinkingSteps(parsed.rawThinking)
              /\ parsed.responseContent = <<>>
        /\ (hasOpen /\ hasClose) =>
              /\ parsed.isComplete
              /\ ~parsed.isThinking
              /\ \A o \in 0..Len(buffer) : \A c \in 0..Len(buffer) :
                    (FirstOccurrence(buffer, OpenMarker, o)
                       /\ FirstOccurrence(buffer, CloseMarker, c)) =>
                        /\ parsed.rawThinking = Between(buffer, o + 7, c)
                        /\ IsTrimOf(parsed.responseContent,
                                    Between(buffer, c + 8, Len(buffer)))
              /\ parsed.steps = extractThinkingSteps(parsed.rawThinking)

\* a complete buffer with a step between the markers and white space around
\* the response text
C7_Witness ==
    /\ parsed.isComplete
    /\ Len(parsed.steps) >= 1
    /\ parsed.responseContent # <<>>
    /\ \E c \in 0..Len(buffer) :
          /\ FirstOccurrence(buffer, CloseMarker, c)
          /\ Len(parsed.responseContent) < Len(buffer) - (c + 8)

\* every step of a is kept in b at the same position with the same tag; the
\* text of every step but the last of a is unchanged, the text of the last
\* step of a is extended
StepsExtend(a, b) ==
    /\ Len(a) <= Len(b)
    /\ \A i \in 1..Len(a) :
          /\ a[i].tag = b[i].tag
          /\ IF i < Len(a) THEN a[i].text = b[i].text
                           ELSE IsPrefix(a[i].text, b[i].text)

\* the shorter prefix is in thinking mode and ends strictly inside the close
\* marker that the longer prefix completes
EndsInsideCloseMarker ==
    /\ parsed.isThinking
    /\ \E c \in 0..Len(buffer') :
          /\ FirstOccurrence(buffer', CloseMarker, c)
          /\ c < Len(buffer)

\* C8 as stated: the steps parsed from a prefix are a prefix of the steps
\* parsed from every longer prefix of the same final string.
C8_StepsPrefixOriginal ==
    [][IsPrefix(parsed.steps, parsed'.steps)]_vars

\* C8 amended: unless the shorter prefix ends strictly inside the close
\* marker, the longer prefix keeps every step of the shorter one at the same
\* position with the same tag, leaves the text of every step but the last
\* unchanged and only extends the text of the last one.
C8_StepsExtend ==
    [][~EndsInsideCloseMarker => StepsExtend(parsed.steps, parsed'.steps)]_vars

\* two steps have been parsed from a buffer that is still inside the block
C8_Witness ==
    /\ parsed.isThinking
    /\ Len(parsed.steps) >= 2
    /\ parsed.steps[1].text # <<>>
    /\ Len(buffer) < Len(finalString)

EventsOfType(type) == {i \in 1..Len(events) : events[i].type = type}

EventsOfStage(stages) == {i \in 1..Len(events) : events[i].stage \in stages}

TerminalEvents == EventsOfType("Done") \cup EventsOfType("Error")

CallsOfPass(pass) == {i \in 1..Len(calls) : calls[i].pass = pass}

\* C1: in extended and in single-pass mode, whatever the adapter calls return
\* or throw, the emitted events hold at most one terminal event (one Done or
\* one Error, never both, never two of a kind), the terminal event is the
\* last event so no Text follows it, the body is closed exactly when it has
\* been written, and a run that has stopped on a body the consumer did not
\* cancel has written it.
C1_OneTerminalEvent ==
    /\ Cardinality(TerminalEvents) <= 1
    /\ \A i \in TerminalEvents : i = Len(events)
    /\ closed <=> TerminalEvents # {}
    /\ (pc \in {"done", "error"} /\ ~cancelled) => TerminalEvents # {}
    /\ pc = "done" => EventsOfType("Done") # {}

\* a response fragment was streamed before the response pass failed
C1_Witness ==
    /\ pc = "error"
    /\ ~cancelled
    /\ EventsOfStage({"response"}) # {}
    /\ events[Len(events)].type = "Error"

\* C2: in extended mode every decomposition step and every synthetic
\* CRITIQUING/REFINING/VALIDATING line is emitted before the closing sentinel,
\* the closing sentinel is emitted before every response-stage Text, and a
\* run that ended with Done emitted the closing sentinel exactly once.
C2_ReasoningBeforeResponse ==
    extendedThinking =>
        /\ \A i \in EventsOfStage({"step", "narration"}) :
              /\ events[i].type = "Text"
              /\ extractThinkingSteps(events[i].text) # <<>>
              /\ \A j \in EventsOfStage({"close", "response"}) : i < j
        /\ \A j \in EventsOfStage({"response"}) :
              \E c \in EventsOfStage({"close"}) : c < j
        /\ \A c \in EventsOfStage({"close"}) : events[c].text = CloseSentinel
        /\ pc = "done" => Cardinality(EventsOfStage({"close"})) = 1

\* a successful run with a decomposition step and a response fragment
C2_Witness ==
    /\ extendedThinking
    /\ pc = "done"
    /\ EventsOfStage({"step"}) # {}
    /\ EventsOfStage({"response"}) # {}

\* the run was ended by the one adapter failure err[1]: one Error event with
\* the text `carried` is the last event, there is no Done, the failed call is
\* the last call that was started, and after a decompose failure there is no
\* critique call and no response-stage Text
FailureShortCircuits(carried) ==
    /\ Len(err) = 1
    /\ pc = "error"
    /\ pending = {}
    /\ Cardinality(EventsOfType("Error")) = 1
    /\ events[Len(events)] = [type |-> "Error", stage |-> "error", text |-> carried]
    /\ EventsOfType("Done") = {}
    /\ calls[Len(calls)].pass = err[1].at
    /\ \A pass \in {"decompose", "critique", "respond"} :
          Cardinality(CallsOfPass(pass)) <= 1
    /\ err[1].at = "decompose" =>
          /\ Len(calls) = 1
          /\ EventsOfStage({"response"}) = {}
    /\ err[1].at = "critique" => Len(calls) = 2

\* C3 as stated: the Error event carries the failure's message.
C3_ErrorCarriesMessageOriginal ==
    (extendedThinking /\ err # <<>> /\ ~cancelled)
        => FailureShortCircuits(err[1].message)

\* C3 amended: an adapter failure at the decompose, critique or respond stage
\* of an extended-mode run emits exactly one Error event, which carries the
\* failure's message or, when the failure has no message, the text
\* "AI generation failed"; no Done is emitted, no adapter call is started
\* afterwards, and a decompose failure is followed by no critique call and no
\* response-stage Text.
C3_FailureShortCircuits ==
    (extendedThinking /\ err # <<>> /\ ~cancelled)
        => FailureShortCircuits(IF err[1].message = <<>> THEN GenerationFailed
                                                         ELSE err[1].message)

\* the critique call failed without a message after the decomposition steps
\* were revealed
C3_Witness ==
    /\ extendedThinking
    /\ ~cancelled
    /\ Len(err) = 1
    /\ err[1].at = "critique"
    /\ err[1].message = <<>>
    /\ EventsOfStage({"step"}) # {}

\* the orchestrator state of the specification
Phase ==
    CASE pc = "init" -> "INIT"
      [] pc \in {"decompose", "replay", "critiquing"} -> "DECOMPOSE"
      [] pc \in {"critique", "refining", "validating"} -> "CRITIQUE"
      [] pc = "respond" -> "RESPOND"
      [] pc = "done" -> "DONE"
      [] pc = "error" -> "ERROR"

PhaseOrder ==
    { <<"INIT", "DECOMPOSE">>, <<"DECOMPOSE", "CRITIQUE">>,
      <<"CRITIQUE", "RESPOND">>, <<"RESPOND", "DONE">> }

PassOrder == <<"decompose", "critique", "respond">>

\* C4: in extended mode the orchestrator only moves INIT -> DECOMPOSE ->
\* CRITIQUE -> RESPOND -> DONE or from a non-terminal state to ERROR, DONE and
\* ERROR are left by no step, the adapter calls are started at most once each
\* in the order decompose, critique, respond, a call is started only when no
\* call is in flight, the critique call embeds the full text the decompose
\* call returned, and at most one call is in flight at any time.
C4_StrictSequence ==
    /\ [](extendedThinking =>
            /\ Cardinality(pending) <= 1
            /\ Len(calls) <= 3
            /\ \A i \in 1..Len(calls) : calls[i].pass = PassOrder[i])
    /\ [][extendedThinking =>
            /\ \/ Phase' = Phase
               \/ <<Phase, Phase'>> \in PhaseOrder
               \/ Phase \notin {"DONE", "ERROR"} /\ Phase' = "ERROR"
            /\ calls' # calls =>
                  /\ pending = {}
                  /\ Len(calls') = Len(calls) + 1
                  /\ calls'[Len(calls')].pass = "critique" =>
                        /\ Phase = "DECOMPOSE"
                        /\ decomposition \in DecomposeResults
                        /\ calls'[Len(calls')].embedded = decomposition
                  /\ calls'[Len(calls')].pass = "respond" =>
                        /\ Phase = "CRITIQUE"
                        /\ critique \in CritiqueResults]_vars

\* a run that made the three calls and ended with Done
C4_Witness ==
    /\ extendedThinking
    /\ pc = "done"
    /\ Len(calls) = 3
    /\ pending = {}

\* C5: when the stream read by the chat page holds an Error frame, the turn
\* ends with an assistant turn that shows the failure message, and no
\* assistant message built from the partial content is handed to addMessage
\* or appended to the conversation.
C5_ErrorFrameEndsTurnWithError ==
    \A i \in EventsOfType("Error") :
        /\ cpc \in {"saving", "done"} => saved = <<>>
        /\ cpc = "done" =>
              messages = << [role |-> "assistant",
                             content |-> ErrorPrefix \o events[i].text,
                             isBreakthrough |-> FALSE,
                             timelineEvent |-> Null] >>

\* C10: in extended mode the content handed to addMessage holds neither the
\* open marker nor the close marker nor any reasoning line the server emitted
\* inside the reasoning block, for every stream, Error-terminated ones
\* included.
C10_PersistedContentClean ==
    extendedThinking =>
        \A k \in 1..Len(saved) :
            /\ ~Contains(saved[k].content, OpenMarker)
            /\ ~Contains(saved[k].content, CloseMarker)
            /\ \A i \in EventsOfStage({"step", "narration"}) :
                  ~Contains(saved[k].content, trim(events[i].text))

\* the positions of start() whose next step writes to the controller
WritePositions == {"replay", "critique", "refining", "validating", "respond"}

\* C12: once the client has cancelled the response body of an extended-mode
\* run nothing more is written to it, the orchestrator's next write ends the
\* run (no pass is continued), and no completeChat or streamChat call is
\* started by that step or after it.
C12_CancelAbandonsPasses ==
    [][(extendedThinking /\ cancelled) =>
          /\ events' = events
          /\ wire' = wire
          /\ (pc \in WritePositions /\ pc' # pc) =>
                (pc' = "error" /\ calls' = calls)
          /\ pc = "error" => (pc' = "error" /\ calls' = calls)]_vars

\* the body was cancelled while the critique call was in flight; the write
\* of the REFINING line failed and the response pass was never started
C12_Witness ==
    /\ extendedThinking
    /\ cancelled
    /\ pc = "error"
    /\ err = <<>>
    /\ critique \in CritiqueResults
    /\ Len(calls) = 2

(***************************************************************************)
(* Properties of the functions                                             *)
(***************************************************************************)
WithoutWhitespace(s) == SelectSeq(s, LAMBDA ch : ch \notin Whitespace)

\* t is s without its leading white space
IsTrimStartOf(t, s) ==
    \E k \in 0..Len(s) :
        /\ t = Between(s, k, Len(s))
        /\ \A p \in 1..k : s[p] \in Whitespace
        /\ t # <<>> => t[1] \notin Whitespace

\* C11 as stated: stripThinkingBlock(a + "<think>" + x + "</think>" + b) is
\* a + b up to white space, for any a, x and b.
C11_StripIsConcatOriginal ==
    (call.fn = "stripThinkingBlock" /\ result # <<>>) =>
        WithoutWhitespace(result[1])
            = WithoutWhitespace(call.args[1] \o call.args[3])

\* C11 amended: when a contains no open marker, x no close marker and b no
\* open marker, stripThinkingBlock(a + "<think>" + x + "</think>" + b) is a
\* followed by b without its leading white space, trimmed at both ends; for
\* a = "a" and b = "b" it is "ab".
C11_StripIsConcat ==
    (/\ call.fn = "stripThinkingBlock"
     /\ result # <<>>
     /\ ~Contains(call.args[1], OpenMarker)
     /\ ~Contains(call.args[2], CloseMarker)
     /\ ~Contains(call.args[3], OpenMarker)) =>
        /\ \E t \in {Between(call.args[3], k, Len(call.args[3])) :
                        k \in 0..Len(call.args[3])} :
              /\ IsTrimStartOf(t, call.args[3])
              /\ IsTrimOf(result[1], call.args[1] \o t)
        /\ (call.args[1] = <<"a">> /\ call.args[3] = <<"b">>)
              => result[1] = <<"a", "b">>

\* a block with an embedded newline and an open marker inside, between text
\* with white space on both sides
C11_Witness ==
    /\ call.fn = "stripThinkingBlock"
    /\ call.args = << <<" ", "a">>, <<"\n">> \o OpenMarker, <<"\n", "b">> >>
    /\ result = << <<"a", "b">> >>

\* the provider the request resolves to
resolvedProvider(body) ==
    getProviderForModel(IF body.hasModel THEN body.model ELSE DefaultModel)

\* the request's own key for the provider
requestKey(body, provider) ==
    IF ~body.hasKeys THEN <<>>
    ELSE IF provider = Gemini THEN body.apiKeys.google
    ELSE IF provider = OpenAI THEN body.apiKeys.openai
    ELSE IF provider = Anthropic THEN body.apiKeys.anthropic
    ELSE body.apiKeys.groq

\* the server-side fallback, which exists for gemini and groq only
environmentKey(env, provider) ==
    IF provider = Gemini THEN env.GEMINI_API_KEY
    ELSE IF provider = Groq THEN env.GROQ_API_KEY
    ELSE <<>>

\* C13: a request whose messages are missing, not an array or empty, or whose
\* resolved provider has neither a key in the request nor (for gemini and groq
\* only) a key in the server environment, is answered with status 400 and an
\* error text without a stream being opened; the error text of the missing
\* credential contains the provider's name.
C13_RejectedBeforeStream ==
    (call.fn = "POST" /\ result # <<>>) =>
        LET body         == call.args[1]
            env          == call.args[2]
            response     == result[1]
            provider     == resolvedProvider(body)
            noMessages   == body.messages.kind # "array" \/ body.messages.items = <<>>
            noCredential == /\ requestKey(body, provider) = <<>>
                            /\ environmentKey(env, provider) = <<>>
            rejected     == /\ response.status = 400
                            /\ response.error # <<>>
                            /\ ~response.streamOpened
        IN  /\ (noMessages \/ noCredential) => rejected
            /\ (~noMessages /\ noCredential) => Contains(response.error, provider)

\* a gpt model without an openai key is rejected although the environment
\* holds keys for gemini and groq
C13_Witness ==
    /\ call.fn = "POST"
    /\ result # <<>>
    /\ resolvedProvider(call.args[1]) = OpenAI
    /\ call.args[1].messages.items # <<>>
    /\ call.args[1].hasKeys
    /\ call.args[1].apiKeys.openai = <<>>
    /\ call.args[1].apiKeys.groq # <<>>
    /\ call.args[2].GEMINI_API_KEY # <<>>
    /\ call.args[2].GROQ_API_KEY # <<>>
    /\ result[1].status = 400
    /\ Contains(result[1].error, OpenAI)
    /\ ~result[1].streamOpened

\* the texts of the Text events, in the order of emission
TextsEmitted ==
    LET RECURSIVE from(_)
        from(i) ==
            IF i > Len(events) THEN <<>>
            ELSE IF events[i].type = "Text" THEN <<events[i].text>> \o from(i + 1)
            ELSE from(i + 1)
    IN  from(1)

\* C14: without extended mode the run makes one adapter call, a streamChat
\* under the default persona prompt with nothing embedded, and never a
\* completeChat; the Text events carry the adapter's fragments unchanged, one
\* per fragment and in the adapter's order, each written as the frame of that
\* fragment; no event belongs to the reasoning stages (open, step, narration,
\* close); a run that reached its end emitted every fragment and then Done.
C14_SinglePassForwards ==
    ~extendedThinking =>
        /\ Len(calls) = (IF pc = "init" THEN 0 ELSE 1)
        /\ \A i \in 1..Len(calls) :
              /\ calls[i].fn = "streamChat"
              /\ calls[i].system = "SOCRATIC_SYSTEM_PROMPT"
              /\ calls[i].embedded = <<>>
        /\ EventsOfStage({"open", "step", "narration", "close"}) = {}
        /\ IsPrefix(TextsEmitted, chunks)
        /\ \A i \in 1..Len(TextsEmitted) :
              /\ events[i] = Event("Text", "response", chunks[i])
              /\ wire[i] = TextFrame(chunks[i])
        /\ ~cancelled => TextsEmitted = chunks
        /\ pc = "done" =>
              /\ TextsEmitted = chunks
              /\ Len(events) = Len(chunks) + 1
              /\ events[Len(events)].type = "Done"

\* a finished single-pass run of two fragments, one of them the open sentinel
\* and one empty
C14_Witness ==
    /\ ~extendedThinking
    /\ pc = "done"
    /\ chunks = <<OpenMarker, <<>>>>
    /\ Len(events) = 3

\* the number of places where s holds a blank line, i.e. two adjacent newlines
BlankLines(s) == Cardinality({i \in 1..(Len(s) - 1) : s[i] = "\n" /\ s[i + 1] = "\n"})

\* the frame is "data: " + payload + one blank line, the payload is the one of
\* the event's kind and holds no raw line break, and the blank line that ends
\* the frame is the only one in it
FrameOfEvent(ev, fr) ==
    LET payload == Between(fr, Len(DataPrefix), Len(fr) - 2)
    IN  /\ Len(fr) >= Len(DataPrefix) + 2
        /\ fr = DataPrefix \o payload \o <<"\n", "\n">>
        /\ \A i \in 1..Len(payload) : payload[i] \notin {"\n", "\r"}
        /\ BlankLines(fr) = 1
        /\ ev.type = "Done" => payload = DoneLiteral
        /\ ev.type = "Text" =>
              /\ IsPrefix(<<"{", "\"", "t", "e", "x", "t", "\"", ":">>, payload)
              /\ jsonParse(payload) = [ok |-> TRUE, key |-> TextKey, value |-> ev.text]
        /\ ev.type = "Error" =>
              /\ IsPrefix(<<"{", "\"", "e", "r", "r", "o", "r", "\"", ":">>, payload)
              /\ jsonParse(payload) = [ok |-> TRUE, key |-> ErrorKey, value |-> ev.text]

\* C15 as stated: every event is written as one well-formed frame and the
\* decoder recognises exactly that event in the frame.
C15_FrameRoundTripOriginal ==
    (call.fn = "encodeEvent" /\ result # <<>>) =>
        /\ FrameOfEvent(call.args[1], result[1].frame)
        /\ result[1].decoded = <<call.args[1]>>

\* C15: every event is written as one frame "data: <payload>" plus a blank
\* line, the payload being {"text": fragment}, {"error": message} or [DONE]
\* and free of raw line breaks; the frame holds one blank line, its own end;
\* the decoder recognises in the frame exactly the event that was written (so
\* a Text whose fragment is "[DONE]" comes back as that Text), except that it
\* recognises nothing in the frame of a Text whose fragment is empty.
C15_FrameRoundTrip ==
    (call.fn = "encodeEvent" /\ result # <<>>) =>
        /\ FrameOfEvent(call.args[1], result[1].frame)
        /\ result[1].decoded =
              (IF call.args[1] = StreamEvent("Text", <<>>) THEN <<>>
               ELSE <<call.args[1]>>)

\* a Text whose fragment is a blank line followed by a whole [DONE] frame
C15_Witness ==
    /\ call.fn = "encodeEvent"
    /\ result # <<>>
    /\ call.args[1] = StreamEvent("Text", <<"\n", "\n", "d", "a", "t", "a", ":", " ", "[", "D", "O", "N", "E", "]">>)
    /\ result[1].decoded = <<call.args[1]>>

(***************************************************************************)
(* Properties of the reader loop                                           *)
(***************************************************************************)
\* C16: a read that holds a frame with a malformed payload, or a piece of a
\* frame, changes neither fullContent nor any other state of the decoder, and
\* every read that holds a well-formed Text frame, whatever was skipped before
\* it, appends that frame's text to fullContent.
C16_MalformedFrameSkipped ==
    [][(call.fn = "read" /\ rd' = rd + 1) =>
          IF call.args[rd'].kind = "broken"
          THEN UNCHANGED <<fullContent, thinkingDone, isThinking, thinkingComplete,
                           thinkingSteps, streamingContent>>
          ELSE fullContent' = fullContent \o call.args[rd'].text]_vars

\* a broken read between two whole Text frames
C16_Witness ==
    /\ call.fn = "read"
    /\ rd = 3
    /\ call.args[1].kind = "text"
    /\ call.args[2].kind = "broken"
    /\ call.args[3].kind = "text"
    /\ fullContent = call.args[1].text \o call.args[3].text
    /\ call.args[1].text # call.args[3].text

\* the step is what the line says: the line starts with "[", a reasoning tag in
\* any case and "]", the step has the tag in upper case and as text the
\* trimmed rest of that line
StepOfLine(step, line) ==
    \E t \in ReasoningTags :
        /\ Len(line) >= Len(t) + 2
        /\ line[1] = "["
        /\ toUpperCase(Between(line, 1, Len(t) + 1)) = t
        /\ line[Len(t) + 2] = "]"
        /\ step.tag = t
        /\ IsTrimOf(step.text, Between(line, Len(t) + 2, Len(line)))

\* the steps come from lines of raw, one line each, in the order of the lines
StepsOfLines(steps, raw) ==
    LET lines == split(raw)
    IN  \E at \in [1..Len(steps) -> 1..Len(lines)] :
            /\ \A i \in 1..Len(steps) : StepOfLine(steps[i], lines[at[i]])
            /\ \A i \in 1..(Len(steps) - 1) : at[i] < at[i + 1]

\* C17: for every raw text both copies of the extractor return only steps
\* whose tag stands at the start of a line, each with the upper-cased tag and
\* the trimmed rest of that same line as its text (no line break, nothing of
\* a following line), in the order of appearance; a text without matches
\* gives the empty sequence.
C17_StepsAreLineAnchored ==
    (call.fn = "extractThinkingSteps" /\ result # <<>>) =>
        /\ StepsOfLines(result[1].client, call.args[1])
        /\ StepsOfLines(result[1].server, call.args[1])
        /\ \A i \in 1..Len(result[1].client) :
              \A k \in 1..Len(result[1].client[i].text) :
                 result[1].client[i].text[k] # "\n"

\* s holds a reasoning block: an open marker with a close marker after it
HasThinkSpan(s) ==
    \E i \in 0..Len(s) : \E j \in 0..Len(s) :
        /\ Occurs(s, OpenMarker, i)
        /\ Occurs(s, CloseMarker, j)
        /\ j >= i + Len(OpenMarker)

\* C18: the analysis embedded in the critique instruction of the second
\* completeChat call holds no <think>...</think> span, whatever the
\* decomposition result was.
C18_CritiqueAnalysisStripped ==
    \A i \in CallsOfPass("critique") :
        /\ calls[i].fn = "completeChat"
        /\ ~HasThinkSpan(calls[i].embedded)

\* the system instructions a backend request carries: its system parameter
\* and the contents of the system-role messages among its messages
SystemInstructions(request) ==
    LET RECURSIVE ofMessages(_)
        ofMessages(ms) ==
            IF ms = <<>> THEN <<>>
            ELSE (IF Head(ms).role = "system" THEN <<Head(ms).content>> ELSE <<>>)
                 \o ofMessages(Tail(ms))
    IN  request.system \o ofMessages(request.messages)

\* C19: for each of the four providers, for streamChat and for completeChat:
\* a message list without a system-role message gives a request whose only
\* system instruction is the default persona prompt, and a list with one
\* gives a request whose system instruction is the content of the list's
\* first system-role message.
C19_SystemInstruction ==
    (call.fn \in {"streamChat", "completeChat"} /\ result # <<>>) =>
        LET msgs    == call.args[2]
            systems == {i \in 1..Len(msgs) : msgs[i].role = "system"}
            given   == SystemInstructions(result[1])
        IN  IF systems = {}
            THEN given = <<SOCRATIC_SYSTEM_PROMPT>>
            ELSE /\ given # <<>>
                 /\ given[1] = msgs[CHOOSE i \in systems : \A j \in systems : i <= j].content

\* the timeline tags that stand at 0-based index i of content, in any case
\* and between brackets
TagsAtOccurrence(content, i) ==
    {t \in TimelineTags :
        /\ i + Len(t) + 2 <= Len(content)
        /\ content[i + 1] = "["
        /\ toUpperCase(Between(content, i, i + Len(t) + 2)) = <<"[">> \o t \o <<"]">>}

TagOccurrences(content) ==
    {i \in 0..Len(content) : TagsAtOccurrence(content, i) # {}}

\* the tag at an occurrence, in upper case
TagAt(content, i) == CHOOSE t \in TimelineTags : t \in TagsAtOccurrence(content, i)

\* the k-th smallest member of a set of numbers
Kth(S, k) == CHOOSE i \in S : Cardinality({j \in S : j < i}) = k - 1

\* the text between the end of the k-th tag and the next tag or the end
SegmentAfter(content, occ, k) ==
    LET from == Kth(occ, k) + Len(TagAt(content, Kth(occ, k))) + 2
        to   == IF k < Cardinality(occ) THEN Kth(occ, k + 1) ELSE Len(content)
    IN  Between(content, from, to)

\* s up to its first line feed
FirstLine(s) ==
    LET feeds == {i \in 1..Len(s) : s[i] = "\n"}
    IN  IF feeds = {} THEN s
        ELSE Between(s, 0, (CHOOSE i \in feeds : \A j \in feeds : i <= j) - 1)

\* t is the line itself when it has at most 80 characters, else its first 80
\* characters without their trailing white space, followed by an ellipsis
IsShortened(t, line) ==
    IF Len(line) <= 80 THEN t = line
    ELSE \E n \in 0..80 :
            /\ t = Between(line, 0, n) \o <<Ellipsis>>
            /\ n > 0 => line[n] \notin Whitespace
            /\ \A p \in (n + 1)..80 : line[p] \in Whitespace

\* one event per occurrence of a tag, in order, with the lower-cased tag as
\* type and a text that fits the segment after the tag; the derived
\* timelineEvent is the last type, or null
TimelineEventsFit(content, r, Fits(_, _)) ==
    \E occ \in {TagOccurrences(content)} :
        /\ Len(r.events) = Cardinality(occ)
        /\ \A k \in 1..Len(r.events) :
              /\ r.events[k].type = toLowerCase(TagAt(content, Kth(occ, k)))
              /\ toUpperCase(r.events[k].type) \in TimelineTags
              /\ \E seg \in {SegmentAfter(content, occ, k)} : Fits(r.events[k].text, seg)
        /\ r.mainEvent = (IF occ = {} THEN Null ELSE r.events[Len(r.events)].type)

\* C20 as stated: the text of each event is the first line of the segment
\* that follows the tag.
C20_TimelineEventsOriginal ==
    (call.fn = "parseTimelineEvents" /\ result # <<>>) =>
        TimelineEventsFit(call.args[1], result[1],
                          LAMBDA t, seg : t = FirstLine(seg))

\* C20: parseTimelineEvents returns one event per occurrence of a timeline
\* tag (in any case), in order of appearance, each with the lower-cased tag
\* of the 5-tag vocabulary as type; the text is the first line of the segment
\* after the tag once the segment's leading and trailing white space is
\* removed, shortened to its first 80 characters (less their trailing white
\* space) plus an ellipsis when it is longer than 80; the timelineEvent of
\* the message is the type of the last event, or null when there is none.
C20_TimelineEvents ==
    (call.fn = "parseTimelineEvents" /\ result # <<>>) =>
        TimelineEventsFit(call.args[1], result[1],
                          LAMBDA t, seg : \E trimmed \in {trim(seg)} :
                                             IsShortened(t, FirstLine(trimmed)))

\* two tags, the first followed by a line of 85 characters
C20_Witness ==
    /\ call.fn = "parseTimelineEvents"
    /\ result # <<>>
    /\ call.args[1] = <<"[", "I", "N", "S", "I", "G", "H", "T", "]">> \o LongLine
                         \o <<"[", "q", "u", "e", "s", "t", "i", "o", "n", "]">>
    /\ Len(result[1].events) = 2
    /\ result[1].events[1].text = [i \in 1..79 |-> "x"] \o <<Ellipsis>>
    /\ result[1].mainEvent = <<"q", "u", "e", "s", "t", "i", "o", "n">>

\* C21: every event returned by parseTimelineEvents has a text of at most 80
\* characters, however long the segment after its tag is.
C21_TextAtMost80 ==
    (call.fn = "parseTimelineEvents" /\ result # <<>>) =>
        \A k \in 1..Len(result[1].events) : Len(result[1].events[k].text) <= 80

\* C22: getProviderForModel answers every identifier, with one of the four
\* providers, by these rules in this order: prefix gemini gives gemini, prefix
\* gpt gives openai, prefix claude gives anthropic, prefix llama or the text
\* groq anywhere gives groq, and everything else gives groq as well.
C22_ProviderRules ==
    (call.fn = "getProviderForModel" /\ result # <<>>) =>
        LET id       == call.args[1]
            provider == result[1]
        IN  /\ provider \in {Gemini, OpenAI, Anthropic, Groq}
            /\ IsPrefix(Gemini, id) => provider = Gemini
            /\ (~IsPrefix(Gemini, id) /\ IsPrefix(<<"g", "p", "t">>, id)) => provider = OpenAI
            /\ (~IsPrefix(Gemini, id) /\ ~IsPrefix(<<"g", "p", "t">>, id)
                   /\ IsPrefix(<<"c", "l", "a", "u", "d", "e">>, id)) => provider = Anthropic
            /\ (~IsPrefix(Gemini, id) /\ ~IsPrefix(<<"g", "p", "t">>, id)
                   /\ ~IsPrefix(<<"c", "l", "a", "u", "d", "e">>, id)) => provider = Groq

\* an identifier with the prefix gpt that also holds groq goes to openai
C22_Witness ==
    /\ call.fn = "getProviderForModel"
    /\ result # <<>>
    /\ IsPrefix(<<"g", "p", "t">>, call.args[1])
    /\ Contains(call.args[1], Groq)
    /\ result[1] = OpenAI

\* the text the decomposition steps are taken from: what stands between the
\* first open marker and the first close marker after it, or the whole result
\* when there is no such pair
EmbeddedBlockOr(d) ==
    IF \E i \in 0..Len(d) : \E j \in 0..Len(d) :
          FirstOccurrence(d, OpenMarker, i) /\ Occurs(d, CloseMarker, j) /\ j >= i + 7
    THEN LET i == CHOOSE x \in 0..Len(d) : FirstOccurrence(d, OpenMarker, x)
             j == CHOOSE y \in (i + 7)..Len(d) :
                     /\ Occurs(d, CloseMarker, y)
                     /\ \A z \in (i + 7)..(y - 1) : ~Occurs(d, CloseMarker, z)
         IN  Between(d, i + 7, j)
    ELSE d

\* "[TAG] text\n" for each step extracted from the text
StepLinesOf(text) ==
    LET steps == extractSteps(text)
    IN  [k \in 1..Len(steps) |->
            <<"[">> \o steps[k].tag \o <<"]", " ">> \o steps[k].text \o <<"\n">>]

\* C23: in extended mode the step events are, in order, the lines "[TAG] text"
\* plus newline of the steps extracted from inside the first <think>...</think>
\* block of the decompose result when it has one, else from the whole result;
\* they follow the opening sentinel directly, one Text event and one frame per
\* step, and the CRITIQUING line comes after the last of them.
C23_StepsReplayed ==
    extendedThinking =>
        \E expected \in {StepLinesOf(EmbeddedBlockOr(decomposition))} :
            /\ decomposition = <<>> => EventsOfStage({"step"}) = {}
            /\ \A i \in EventsOfStage({"step"}) :
                  /\ i >= 2
                  /\ i <= Len(expected) + 1
                  /\ events[1].stage = "open"
                  /\ events[i] = Event("Text", "step", expected[i - 1])
                  /\ wire[i] = TextFrame(expected[i - 1])
            /\ \A i \in 1..Len(events) :
                  events[i].text = CritiquingLine =>
                      /\ i = Len(expected) + 2
                      /\ \A k \in 2..(i - 1) : events[k].stage = "step"

\* the decompose result holds a tag inside its block and one outside; the
\* CRITIQUING line has been written after the one step of the block
C23_Witness ==
    /\ extendedThinking
    /\ Contains(decomposition, OpenMarker)
    /\ Contains(decomposition, <<"[", "R", "E", "F", "I", "N", "I", "N", "G", "]", " ", "b">>)
    /\ Len(events) >= 3
    /\ events[2].text = <<"[", "M", "A", "P", "P", "I", "N", "G", "]", " ", "a", "\n">>
    /\ events[3].text = CritiquingLine

\* the three fixed narration lines in the order of the source
FixedNarration == <<CritiquingLine, RefiningLine, ValidatingLine>>

\* C24: in extended mode the narration events are, in order, a prefix of the
\* fixed CRITIQUING, REFINING, VALIDATING lines, whatever the critique call
\* returned; every step event precedes CRITIQUING; the critique call is
\* started only when CRITIQUING has been written; REFINING is written only
\* when the critique call has returned; the closing sentinel follows all
\* three lines; when the critique call failed there is CRITIQUING alone and no
\* closing sentinel.
C24_FixedNarration ==
    extendedThinking =>
        \E nar \in {EventsOfStage({"narration"})} :
            /\ Cardinality(nar) <= 3
            /\ \A k \in 1..Cardinality(nar) : events[Kth(nar, k)].text = FixedNarration[k]
            /\ \A i \in EventsOfStage({"step"}) : \A j \in nar : i < j
            /\ CallsOfPass("critique") # {} => Cardinality(nar) >= 1
            /\ Cardinality(nar) >= 2 => (critique # <<>> /\ CallsOfPass("critique") # {})
            /\ \A c \in EventsOfStage({"close"}) :
                  /\ Cardinality(nar) = 3
                  /\ \A j \in nar : j < c
            /\ (\E e \in 1..Len(err) : err[e].at = "critique") =>
                  /\ Cardinality(nar) <= 1
                  /\ EventsOfStage({"close"}) = {}
                  /\ \A i \in 1..Len(events) :
                        events[i].text \notin {RefiningLine, ValidatingLine, CloseSentinel}

\* the critique call failed on an open body: CRITIQUING is the only narration
\* line and the Error event follows it
C24_Witness ==
    /\ extendedThinking
    /\ ~cancelled
    /\ Len(err) = 1
    /\ err[1].at = "critique"
    /\ Cardinality(EventsOfStage({"narration"})) = 1
    /\ events[Len(events)].type = "Error"
    /\ events[Len(events) - 1].text = CritiquingLine

\* C25: however the bytes the server wrote are cut into reads, once every
\* read has been processed fullContent is the concatenation of the fragments
\* of the Text events the server emitted, in order.
C25_AnySegmentation ==
    (call.fn = "segmented" /\ rd = Len(wire)) =>
        fullContent = concat(call.args[1])

\* C26: when the buffer grows by an append, a buffer that was classified as
\* thinking or complete is not classified as pass-through afterwards, and a
\* buffer that was classified as complete stays complete, is not reported as
\* thinking, and keeps its rawThinking and its steps.
C26_ModeMovesForward ==
    [][/\ (parsed.isThinking \/ parsed.isComplete)
            => (parsed'.isThinking \/ parsed'.isComplete)
       /\ parsed.isComplete =>
              /\ parsed'.isComplete
              /\ ~parsed'.isThinking
              /\ parsed'.rawThinking = parsed.rawThinking
              /\ parsed'.steps = parsed.steps]_vars

\* a complete buffer with a step, with another open marker still to come
C26_Witness ==
    /\ parsed.isComplete
    /\ parsed.steps # <<>>
    /\ Len(buffer) < Len(finalString)
    /\ Contains(SubSeq(finalString, Len(buffer) + 1, Len(finalString)), OpenMarker)

\* the index of the closing sentinel among the events, or one past the last
\* event when it has not been written
ClosingSentinelAt ==
    IF EventsOfStage({"close"}) = {} THEN Len(events) + 1
    ELSE CHOOSE i \in EventsOfStage({"close"}) : \A j \in EventsOfStage({"close"}) : i <= j

\* C27: in extended mode no Text event written before the closing sentinel
\* holds the close marker, and the page has seen a complete block only after
\* it has read the frame of the closing sentinel.
C27_CompleteOnlyAtSentinel ==
    extendedThinking =>
        /\ \A i \in 1..(ClosingSentinelAt - 1) :
              events[i].type = "Text" => ~Contains(events[i].text, CloseMarker)
        /\ thinkingDone => rd >= ClosingSentinelAt

\* the steps of the three fixed narration lines
SyntheticSteps ==
    << [tag  |-> <<"C", "R", "I", "T", "I", "Q", "U", "I", "N", "G">>,
        text |-> trim(sliceFrom(CritiquingLine, 12))],
       [tag  |-> <<"R", "E", "F", "I", "N", "I", "N", "G">>,
        text |-> trim(sliceFrom(RefiningLine, 10))],
       [tag  |-> <<"V", "A", "L", "I", "D", "A", "T", "I", "N", "G">>,
        text |-> trim(sliceFrom(ValidatingLine, 12))] >>

\* C28: after a successful extended-mode run, once the page has read every
\* frame, the steps it extracts from the whole buffer are the decomposition
\* steps the server extracted and emitted followed by the CRITIQUING, REFINING
\* and VALIDATING steps, with the same tags, texts and order.
C28_StepsRoundTrip ==
    (extendedThinking /\ pc = "done" /\ rd = Len(wire)) =>
        parseThinkingContent(fullContent).steps
            = stepsOfDecomposition(decomposition) \o SyntheticSteps

\* C29: after a successful extended-mode run, once the page has read every
\* frame, stripThinkingBlock of the whole buffer is the response text
\* parseThinkingContent reports for it.
C29_PersistedEqualsShown ==
    (extendedThinking /\ pc = "done" /\ rd = Len(wire)) =>
        stripThinkingBlock(fullContent) = parseThinkingContent(fullContent).responseContent

(***************************************************************************)
(* Properties of the send guard                                            *)
(***************************************************************************)
Settled == \A h \in 1..MaxSends : sends[h].at \in {"idle", "returned", "finished"}

\* C30: at most one /api/chat request is in flight at any time, and once
\* every handleSend that was invoked has returned isGenerating is false.
C30_OneRequestInFlight ==
    /\ Cardinality(inFlight) <= 1
    /\ Settled => ~isGenerating

=============================================================================
